---- MODULE Spec2Model ----
(***************************************************************************)
(* A model of sproto-rust: the wire codec (src/codec), the zero-packing    *)
(* transport (src/pack.rs) and the RPC framing (src/rpc/mod.rs).           *)
(*                                                                         *)
(* Bytes are the integers 0..255 and a buffer is a sequence of bytes.      *)
(* A 64-bit integer (i64, u64 or the bit pattern of an f64) is kept as its *)
(* eight little-endian bytes, so the casts `as u64` / `as i64` are the     *)
(* identity on the representation and every width test of the code is a   *)
(* test on bytes.                                                          *)
(***************************************************************************)
EXTENDS Integers, Sequences, FiniteSets, TLC

VARIABLES
    \* codec: a caller encodes a value, the bytes travel, a peer decodes
    ctype,      \* index (0-based) of the type the caller encodes with
    cvalue,     \* the SprotoValue handed to encode
    wire,       \* Result<Vec<u8>, EncodeError> of encode, then the bytes in flight
    dtype,      \* index of the type the peer decodes with (-1: not yet decoded)
    decoded,    \* Result<SprotoValue, DecodeError> of decode
    reencoded,  \* Result<Vec<u8>, EncodeError> of encode(decode(wire))
    damage,     \* what happened to the bytes in flight: "none", "cut", "tampered", "foreign"
    cpc,        \* position of the codec scenario
    \* transport: a buffer is packed, then restored
    psrc,       \* the bytes handed to pack
    packed,     \* Vec<u8> returned by pack
    restored,   \* Result<Vec<u8>, PackError> of unpack(packed)
    ppc,        \* position of the transport scenario
    \* rpc: a client Host and the RequestSender attached from it talk to a
    \* server Host
    hsessions,  \* Host.sessions of the client
    ssessions,  \* RequestSender.sessions of the client's sender
    sent,       \* the arguments of the request call
    reqpkt,     \* Result<Vec<u8>, RpcError> of RequestSender::request
    incoming,   \* what the server's dispatch made of reqpkt
    answer,     \* the arguments of the last respond call
    nresponds,  \* how many times respond returned a packet
    resppkt,    \* Result<Vec<u8>, RpcError> of the last respond call
    lastd,      \* the client's last dispatch of a response packet
    ndispatches,\* how many response packets the client dispatched
    registered, \* TRUE when register_session ran since the last of them
    rpc,        \* position of the rpc scenario
    \* schemas: a schema text is parsed, a schema bundle is loaded
    items,      \* the Vec<AstItem> handed to build_schema
    parsed,     \* Result<Sproto, ParseError> of build_schema(items)
    reparsed,   \* Result<Sproto, ParseError> of a second parse
    bundle,     \* the bytes handed to load_binary
    loaded,     \* Result<Sproto, DecodeError> of load_binary(bundle)
    spc         \* position of the schema scenarios

codecVars == <<ctype, cvalue, wire, damage, dtype, decoded, reencoded, cpc>>

packVars == <<psrc, packed, restored, ppc>>

rpcVars == <<hsessions, ssessions, sent, reqpkt, incoming, answer, nresponds,
            resppkt, lastd, ndispatches, registered, rpc>>

schemaVars == <<items, parsed, reparsed, bundle, loaded, spc>>

vars == <<codecVars, packVars, rpcVars, schemaVars>>

\* the variables the codec scenario leaves alone
codecOthers == <<packVars, rpcVars, schemaVars>>

\* the variables the transport scenario leaves alone
packOthers == <<codecVars, rpcVars, schemaVars>>

\* the variables the rpc scenario leaves alone
rpcOthers == <<codecVars, packVars, schemaVars>>

\* the variables the schema scenarios leave alone
schemaOthers == <<codecVars, packVars, rpcVars>>

-----------------------------------------------------------------------------
(* src/codec/wire.rs *)

SIZEOF_HEADER == 2
SIZEOF_FIELD == 2
SIZEOF_LENGTH == 4
SIZEOF_INT32 == 4
SIZEOF_INT64 == 8

\* Rust's buf[a..b] on a Vec/slice (0-based, half open)
Slice(buf, a, b) == SubSeq(buf, a + 1, b)

\* buf[a..]
SliceFrom(buf, a) == SubSeq(buf, a + 1, Len(buf))

Zeros(n) == [i \in 1..n |-> 0]

Fill(n, b) == [i \in 1..n |-> b]

read_u16_le(buf) == buf[1] + 256 * buf[2]

\* a length prefix.  TLC's integers are 32-bit, so a prefix of 2^31 - 2^16
\* or more reads as 2^31 - 2^16: like the real value it exceeds every buffer of
\* the model, which is all the code asks of it before it returns or panics
\* (only the `need` of a Truncated error for such a prefix is not the code's).
read_u32_le(buf) ==
    IF buf[4] >= 128 \/ (buf[4] = 127 /\ buf[3] = 255) THEN 2147418112
    ELSE buf[1] + 256 * buf[2] + 65536 * buf[3] + 16777216 * buf[4]

write_u16_le(val) == <<val % 256, (val \div 256) % 256>>

write_u32_le(val) ==
    <<val % 256, (val \div 256) % 256, (val \div 65536) % 256, (val \div 16777216) % 256>>

\* sign-extend the four bytes of a u32 to the eight bytes of a u64
expand64(v) == IF v[4] >= 128 THEN v \o Fill(4, 255) ELSE v \o Zeros(4)

\* the eight bytes of a small non-negative integer
I64(n) == write_u32_le(n) \o Zeros(4)

-----------------------------------------------------------------------------
(* src/value.rs: SprotoValue.  A Struct holds a map from field names to     *)
(* values, an Array a sequence of values; Str and Binary hold bytes;        *)
(* Integer and Double hold eight bytes; Boolean holds TRUE or FALSE.        *)

Integer(b) == [kind |-> "integer", val |-> b]
Boolean(b) == [kind |-> "boolean", val |-> b]
Str(s) == [kind |-> "string", val |-> s]
Binary(b) == [kind |-> "binary", val |-> b]
Double(bits) == [kind |-> "double", val |-> bits]
Struct(map) == [kind |-> "struct", val |-> map]
Array(a) == [kind |-> "array", val |-> a]

EmptyMap == [n \in {} |-> 0]

new_struct == Struct(EmptyMap)

\* HashMap::insert
Insert(map, k, v) == (k :> v) @@ map

-----------------------------------------------------------------------------
(* src/types.rs *)

Field(name, tag, field_type, is_array, decimal_precision) ==
    [name |-> name, tag |-> tag, field_type |-> field_type,
     is_array |-> is_array, decimal_precision |-> decimal_precision]

\* FieldType::Struct(i) is <<"struct", i>>; the others are <<name>>
TInteger == <<"integer">>
TBoolean == <<"boolean">>
TString == <<"string">>
TBinary == <<"binary">>
TDouble == <<"double">>
TStruct(i) == <<"struct", i>>

IsStructType(ft) == ft[1] = "struct"

RECURSIVE CountGaps(_, _, _)
CountGaps(fields, i, last) ==
    IF i > Len(fields) THEN 0
    ELSE (IF fields[i].tag > last + 1 THEN 1 ELSE 0) + CountGaps(fields, i + 1, fields[i].tag)

\* base_tag and maxn with no room for skip descriptors
compute_without_gaps(fields) ==
    IF Len(fields) = 0 THEN [base_tag |-> -1, maxn |-> 0]
    ELSE [base_tag |-> IF fields[Len(fields)].tag - fields[1].tag + 1 # Len(fields)
                       THEN -1 ELSE fields[1].tag,
          maxn |-> Len(fields)]

compute_base_tag_and_maxn(fields) ==
    IF Len(fields) = 0 THEN [base_tag |-> -1, maxn |-> 0]
    ELSE LET n == Len(fields)
             base == fields[1].tag
             span == fields[n].tag - base + 1
         IN  [base_tag |-> IF span # n THEN -1 ELSE base,
              maxn |-> n + CountGaps(fields, 1, -1)]

SprotoType(name, fields) ==
    [name |-> name, fields |-> fields,
     base_tag |-> compute_base_tag_and_maxn(fields).base_tag,
     maxn |-> compute_base_tag_and_maxn(fields).maxn]

\* slice::binary_search_by_key over fields[lo..hi), 0-based
RECURSIVE BinarySearch(_, _, _, _)
BinarySearch(fields, tag, lo, hi) ==
    IF lo >= hi THEN -1
    ELSE LET mid == lo + (hi - lo) \div 2
         IN  IF fields[mid + 1].tag = tag THEN mid
             ELSE IF fields[mid + 1].tag < tag THEN BinarySearch(fields, tag, mid + 1, hi)
             ELSE BinarySearch(fields, tag, lo, mid)

\* the 0-based index of the field with this u16 tag, or -1 (None)
find_field_by_tag(sproto_type, tag) ==
    IF sproto_type.base_tag >= 0
    THEN LET idx == tag - sproto_type.base_tag
         IN  IF idx < 0 \/ idx >= Len(sproto_type.fields) THEN -1 ELSE idx
    ELSE BinarySearch(sproto_type.fields, tag, 0, Len(sproto_type.fields))

-----------------------------------------------------------------------------
(* Numbers the scenarios use, as eight little-endian bytes *)

Int13 == I64(13)
Int7FFE == I64(32766)
Int7FFF == I64(32767)
IntMinus1 == Fill(8, 255)
Int2p31 == <<0, 0, 0, 128, 0, 0, 0, 0>>
IntMin == <<0, 0, 0, 0, 0, 0, 0, 128>>
\* 1.5f64 and 1.82f64
Dbl1p5 == <<0, 0, 0, 0, 0, 0, 248, 63>>
Dbl1p82 == <<31, 133, 235, 81, 184, 30, 253, 63>>

\* `v as f64` for an i64 v (rust's int-to-float cast), on the numbers above
i64_as_f64(v) ==
    CASE v = I64(0) -> Zeros(8)
      [] v = I64(1) -> <<0, 0, 0, 0, 0, 0, 240, 63>>
      [] v = I64(2) -> <<0, 0, 0, 0, 0, 0, 0, 64>>
      [] v = Int13 -> <<0, 0, 0, 0, 0, 0, 42, 64>>
      [] v = I64(182) -> <<0, 0, 0, 0, 0, 192, 102, 64>>
      [] v = Int7FFE -> <<0, 0, 0, 0, 128, 255, 223, 64>>
      [] v = Int7FFF -> <<0, 0, 0, 0, 192, 255, 223, 64>>
      [] v = IntMinus1 -> <<0, 0, 0, 0, 0, 0, 240, 191>>
      [] v = Int2p31 -> <<0, 0, 0, 0, 0, 0, 224, 65>>
      [] v = IntMin -> <<0, 0, 0, 0, 0, 0, 224, 195>>

\* `(v * precision as f64).round() as i64` for an f64 v, and `v as i64` when
\* precision = 0, on the numbers above
f64_scaled_as_i64(v, precision) ==
    CASE v = Dbl1p5 /\ precision = 0 -> I64(1)
      [] v = Dbl1p5 /\ precision = 100 -> I64(150)
      [] v = Dbl1p82 /\ precision = 0 -> I64(1)
      [] v = Dbl1p82 /\ precision = 100 -> I64(182)

-----------------------------------------------------------------------------
(* src/codec/encoder.rs *)

EncOk(bytes) == [st |-> "ok", bytes |-> bytes]
EncErr(e) == [st |-> e, bytes |-> <<>>]

\* EncodedField::Inline(v) / EncodedField::Data(d), or the error
Inline(v) == [st |-> "ok", inline |-> v, data |-> <<>>]
Data(d) == [st |-> "ok", inline |-> 0, data |-> d]
FieldErr(e) == [st |-> e, inline |-> 0, data |-> <<>>]

\* the inline test with 0x7fff let through
FitsInlineUpTo7FFF(int_val) ==
    /\ SubSeq(int_val, 5, 8) = <<0, 0, 0, 0>>
    /\ int_val[3] = 0 /\ int_val[4] = 0
    /\ int_val[1] + 256 * int_val[2] <= 32767

\* uint_val == u32_val as u64 && u32_val < 0x7fff
FitsInline(int_val) ==
    /\ SubSeq(int_val, 5, 8) = Zeros(4)
    /\ int_val[3] = 0 /\ int_val[4] = 0
    /\ int_val[1] + 256 * int_val[2] < 32767

\* every value taken to fit 32 bits
FitsI32Always(int_val) == Len(int_val) = 8

\* (int_val as i32) as i64 == int_val
FitsI32(int_val) == expand64(SubSeq(int_val, 1, 4)) = int_val

Prefixed(bytes) == write_u32_le(Len(bytes)) \o bytes

RECURSIVE encode(_, _, _)
RECURSIVE encode_fields(_, _, _, _, _)
RECURSIVE encode_field(_, _, _)
RECURSIVE encode_array(_, _, _)
RECURSIVE encode_object_array(_, _, _, _, _)

\* the element loop of encode_integer_array: the u64 of each element, or an error
RECURSIVE IntArrayValues(_, _, _)
IntArrayValues(field, arr, i) ==
    IF i > Len(arr) THEN [st |-> "ok", values |-> <<>>]
    ELSE LET val == arr[i]
             is_double == field.field_type = TDouble
             one == IF is_double
                    THEN CASE val.kind = "double" -> [st |-> "ok", v |-> val.val]
                           [] val.kind = "integer" -> [st |-> "ok", v |-> i64_as_f64(val.val)]
                           [] OTHER -> [st |-> "TypeMismatch", v |-> <<>>]
                    ELSE CASE val.kind = "integer" -> [st |-> "ok", v |-> val.val]
                           [] val.kind = "double" ->
                                [st |-> "ok",
                                 v |-> f64_scaled_as_i64(val.val, field.decimal_precision)]
                           [] OTHER -> [st |-> "TypeMismatch", v |-> <<>>]
         IN  IF one.st # "ok" THEN [st |-> one.st, values |-> <<>>]
             ELSE LET rest == IntArrayValues(field, arr, i + 1)
                  IN  IF rest.st # "ok" THEN rest
                      ELSE [st |-> "ok", values |-> <<one.v>> \o rest.values]

RECURSIVE Concat(_)
Concat(seqs) == IF seqs = <<>> THEN <<>> ELSE Head(seqs) \o Concat(Tail(seqs))

encode_integer_array(field, arr) ==
    LET is_double == field.field_type = TDouble
        \* the second pass, vs being the values of the first
        Write(vs) ==
            IF vs.st # "ok" THEN EncErr(vs.st)
            ELSE LET need_64bit == is_double
                                   \/ \E i \in 1..Len(vs.values) : ~FitsI32(vs.values[i])
                     int_size == IF need_64bit THEN SIZEOF_INT64 ELSE SIZEOF_INT32
                     data_len == 1 + Len(vs.values) * int_size
                 IN  EncOk(write_u32_le(data_len) \o <<int_size>>
                           \o Concat([i \in 1..Len(vs.values) |->
                                         SubSeq(vs.values[i], 1, int_size)]))
    IN  Write(IntArrayValues(field, arr, 1))

encode_boolean_array(arr) ==
    IF \E i \in 1..Len(arr) : arr[i].kind # "boolean" THEN EncErr("TypeMismatch")
    ELSE EncOk(write_u32_le(Len(arr))
               \o [i \in 1..Len(arr) |-> IF arr[i].val THEN 1 ELSE 0])

\* the loop of encode_object_array, `inner` being the elements written so far
encode_object_array(sproto, field, arr, i, inner) ==
    IF i > Len(arr) THEN EncOk(Prefixed(inner))
    ELSE LET val == arr[i]
             Push(encoded) ==
                IF encoded.st # "ok" THEN encoded
                ELSE encode_object_array(sproto, field, arr, i + 1,
                                         inner \o Prefixed(encoded.bytes))
         IN  Push(CASE field.field_type = TString ->
                        IF val.kind = "string" THEN EncOk(val.val) ELSE EncErr("TypeMismatch")
                    [] field.field_type = TBinary ->
                        IF val.kind = "binary" THEN EncOk(val.val) ELSE EncErr("TypeMismatch")
                    [] IsStructType(field.field_type) ->
                        encode(sproto, sproto.types_list[field.field_type[2] + 1], val))

encode_array(sproto, field, arr) ==
    IF Len(arr) = 0 THEN EncOk(write_u32_le(0))
    ELSE CASE field.field_type \in {TInteger, TDouble} -> encode_integer_array(field, arr)
           [] field.field_type = TBoolean -> encode_boolean_array(arr)
           [] OTHER -> encode_object_array(sproto, field, arr, 1, <<>>)

encode_field(sproto, field, value) ==
    CASE field.field_type \in {TInteger, TBoolean} ->
            IF value.kind \notin {"integer", "boolean"} THEN FieldErr("TypeMismatch")
            ELSE LET int_val == IF value.kind = "integer" THEN value.val
                                ELSE IF value.val THEN I64(1) ELSE I64(0)
                 IN  IF FitsInline(int_val)
                     THEN Inline(((int_val[1] + 256 * int_val[2] + 1) * 2) % 65536)
                     ELSE IF FitsI32(int_val)
                     THEN Data(write_u32_le(SIZEOF_INT32) \o SubSeq(int_val, 1, 4))
                     ELSE Data(write_u32_le(SIZEOF_INT64) \o int_val)
      [] field.field_type = TDouble ->
            CASE value.kind = "double" -> Data(write_u32_le(SIZEOF_INT64) \o value.val)
              [] value.kind = "integer" ->
                    Data(write_u32_le(SIZEOF_INT64) \o i64_as_f64(value.val))
              [] OTHER -> FieldErr("TypeMismatch")
      [] field.field_type = TString ->
            IF value.kind = "string" THEN Data(Prefixed(value.val))
            ELSE FieldErr("TypeMismatch")
      [] field.field_type = TBinary ->
            IF value.kind = "binary" THEN Data(Prefixed(value.val))
            ELSE FieldErr("TypeMismatch")
      [] IsStructType(field.field_type) ->
            LET AsData(encoded) == IF encoded.st # "ok" THEN FieldErr(encoded.st)
                                   ELSE Data(Prefixed(encoded.bytes))
            IN  AsData(encode(sproto, sproto.types_list[field.field_type[2] + 1], value))

\* the skip marker for a gap of tag_gap > 0 tags: `((tag_gap - 1) * 2 + 1) as u16`
SkipDescriptor(tag_gap) == ((tag_gap - 1) * 2 + 1) % 65536

\* the descriptors encode writes for one field that has data: the skip marker
\* when there is a gap, then the field's own descriptor
FieldDescriptors(tag, last_tag, inline_value) ==
    LET tag_gap == tag - last_tag - 1
    IN  (IF tag_gap > 0 THEN <<SkipDescriptor(tag_gap)>> ELSE <<>>) \o <<inline_value>>

\* the `for field in &sproto_type.fields` loop of encode; acc holds the
\* descriptors written (index = Len(acc.descs)), data_part and last_tag.
\* The header Vec has room for maxn descriptors: writing one more panics.
encode_fields(sproto, sproto_type, fields_map, i, acc) ==
    IF i > Len(sproto_type.fields)
    THEN EncOk(write_u16_le(Len(acc.descs) % 65536)
               \o Concat([k \in 1..Len(acc.descs) |-> write_u16_le(acc.descs[k])])
               \o acc.data_part)
    ELSE LET field == sproto_type.fields[i]
         IN  IF field.name \notin DOMAIN fields_map
             THEN encode_fields(sproto, sproto_type, fields_map, i + 1, acc)
             ELSE LET val == fields_map[field.name]
                      \* the rest of the loop body, r being the encoded field
                      Write(r) ==
                          LET descs == acc.descs
                                       \o FieldDescriptors(field.tag, acc.last_tag, r.inline)
                          IN  IF r.st # "ok" THEN EncErr(r.st)
                              ELSE IF field.is_array /\ r.data = <<>>
                              THEN encode_fields(sproto, sproto_type, fields_map, i + 1, acc)
                              ELSE IF Len(descs) > sproto_type.maxn THEN EncErr("panic")
                              ELSE encode_fields(sproto, sproto_type, fields_map, i + 1,
                                                 [descs |-> descs,
                                                  data_part |-> acc.data_part \o r.data,
                                                  last_tag |-> field.tag])
                      AsData(e) == IF e.st # "ok" THEN FieldErr(e.st) ELSE Data(e.bytes)
                  IN  Write(IF field.is_array
                            THEN IF val.kind # "array" THEN FieldErr("TypeMismatch")
                                 ELSE AsData(encode_array(sproto, field, val.val))
                            ELSE encode_field(sproto, field, val))

encode(sproto, sproto_type, value) ==
    IF value.kind # "struct" THEN EncErr("TypeMismatch")
    ELSE encode_fields(sproto, sproto_type, value.val, 1,
                       [descs |-> <<>>, data_part |-> <<>>, last_tag |-> -1])


-----------------------------------------------------------------------------
(* src/codec/decoder.rs *)

NoValue == [kind |-> "none", val |-> <<>>]

DecOk(v) == [st |-> "ok", val |-> v, need |-> 0, have |-> 0]
DecErr(e) == [st |-> e, val |-> NoValue, need |-> 0, have |-> 0]
Truncated(need, have) == [st |-> "Truncated", val |-> NoValue, need |-> need, have |-> have]

\* String::from_utf8(..).is_ok(): well-formed UTF-8 (Unicode table 3-7)
RECURSIVE IsUtf8(_, _)
IsUtf8(s, i) ==
    LET n == Len(s)
        Cont(k, lo, hi) == k <= n /\ s[k] >= lo /\ s[k] <= hi
    IN  IF i > n THEN TRUE
        ELSE LET b == s[i]
             IN  CASE b <= 127 -> IsUtf8(s, i + 1)
                   [] b >= 194 /\ b <= 223 -> Cont(i + 1, 128, 191) /\ IsUtf8(s, i + 2)
                   [] b = 224 -> Cont(i + 1, 160, 191) /\ Cont(i + 2, 128, 191)
                                 /\ IsUtf8(s, i + 3)
                   [] (b >= 225 /\ b <= 236) \/ b = 238 \/ b = 239 ->
                        Cont(i + 1, 128, 191) /\ Cont(i + 2, 128, 191) /\ IsUtf8(s, i + 3)
                   [] b = 237 -> Cont(i + 1, 128, 159) /\ Cont(i + 2, 128, 191)
                                 /\ IsUtf8(s, i + 3)
                   [] b = 240 -> Cont(i + 1, 144, 191) /\ Cont(i + 2, 128, 191)
                                 /\ Cont(i + 3, 128, 191) /\ IsUtf8(s, i + 4)
                   [] b >= 241 /\ b <= 243 ->
                        Cont(i + 1, 128, 191) /\ Cont(i + 2, 128, 191)
                        /\ Cont(i + 3, 128, 191) /\ IsUtf8(s, i + 4)
                   [] b = 244 -> Cont(i + 1, 128, 143) /\ Cont(i + 2, 128, 191)
                                 /\ Cont(i + 3, 128, 191) /\ IsUtf8(s, i + 4)
                   [] OTHER -> FALSE

RECURSIVE decode(_, _, _)
RECURSIVE decode_fields(_, _, _, _, _, _)
RECURSIVE decode_field_from_data(_, _, _)
RECURSIVE decode_array(_, _, _)
RECURSIVE decode_object_array(_, _, _, _)

decode_inline_value(field, value) ==
    CASE field.field_type = TInteger -> DecOk(Integer(I64(value)))
      [] field.field_type = TBoolean -> DecOk(Boolean(value # 0))
      [] OTHER -> DecErr("InvalidData")

decode_field_from_data(sproto, field, data) ==
    LET sz == read_u32_le(data)
        content == Slice(data, SIZEOF_LENGTH, SIZEOF_LENGTH + sz)
    IN  CASE field.field_type \in {TInteger, TDouble} ->
                IF sz = SIZEOF_INT32
                THEN IF field.field_type = TDouble THEN DecErr("InvalidData")
                     ELSE DecOk(Integer(expand64(content)))
                ELSE IF sz = SIZEOF_INT64
                THEN IF field.field_type = TDouble THEN DecOk(Double(content))
                     ELSE DecOk(Integer(content))
                ELSE DecErr("InvalidData")
          [] field.field_type = TString ->
                IF IsUtf8(content, 1) THEN DecOk(Str(content)) ELSE DecErr("InvalidUtf8")
          [] field.field_type = TBinary -> DecOk(Binary(content))
          [] field.field_type = TBoolean -> DecErr("InvalidData")
          [] IsStructType(field.field_type) ->
                decode(sproto, sproto.types_list[field.field_type[2] + 1], content)

decode_integer_array(field, content) ==
    IF content = <<>> THEN DecOk(Array(<<>>))
    ELSE LET int_len == content[1]
             values_data == SliceFrom(content, 1)
             is_double == field.field_type = TDouble
         IN  IF int_len # SIZEOF_INT32 /\ int_len # SIZEOF_INT64 THEN DecErr("InvalidData")
             ELSE IF Len(values_data) % int_len # 0 THEN DecErr("InvalidData")
             ELSE LET count == Len(values_data) \div int_len
                      Elem(i) == LET raw == Slice(values_data, i * int_len, (i + 1) * int_len)
                                     v == IF int_len = SIZEOF_INT32 THEN expand64(raw) ELSE raw
                                 IN  IF is_double THEN Double(v) ELSE Integer(v)
                  IN  DecOk(Array([i \in 1..count |-> Elem(i - 1)]))

decode_boolean_array(content) ==
    DecOk(Array([i \in 1..Len(content) |-> Boolean(content[i] # 0)]))

\* the `while !content.is_empty()` loop; the slice content[4..4 + elem_sz]
\* panics when elem_sz exceeds the bytes left
decode_object_array(sproto, field, content, arr) ==
    IF content = <<>> THEN DecOk(Array(arr))
    ELSE IF Len(content) < SIZEOF_LENGTH THEN DecErr("InvalidData")
    ELSE LET elem_sz == read_u32_le(content)
         IN  IF SIZEOF_LENGTH + elem_sz > Len(content) THEN DecErr("panic")
             ELSE LET elem_data == Slice(content, SIZEOF_LENGTH, SIZEOF_LENGTH + elem_sz)
                      val == CASE field.field_type = TString ->
                                    IF IsUtf8(elem_data, 1) THEN DecOk(Str(elem_data))
                                    ELSE DecErr("InvalidUtf8")
                               [] field.field_type = TBinary -> DecOk(Binary(elem_data))
                               [] IsStructType(field.field_type) ->
                                    decode(sproto,
                                           sproto.types_list[field.field_type[2] + 1],
                                           elem_data)
                  IN  IF val.st # "ok" THEN val
                      ELSE decode_object_array(sproto, field,
                                               SliceFrom(content, SIZEOF_LENGTH + elem_sz),
                                               Append(arr, val.val))

decode_array(sproto, field, data) ==
    LET sz == read_u32_le(data)
    IN  IF sz = 0 THEN DecOk(Array(<<>>))
        ELSE LET content == Slice(data, SIZEOF_LENGTH, SIZEOF_LENGTH + sz)
             IN  CASE field.field_type \in {TInteger, TDouble} ->
                        decode_integer_array(field, content)
                   [] field.field_type = TBoolean -> decode_boolean_array(content)
                   [] OTHER -> decode_object_array(sproto, field, content, <<>>)

\* the running tag after a descriptor of value `value`, from the tag before it
NextTag(tag, value) == IF value % 2 # 0 THEN tag + 1 + value \div 2 ELSE tag + 1

\* `sproto_type.find_field_by_tag(tag as u16)`
FieldOfTag(sproto_type, tag) == find_field_by_tag(sproto_type, tag % 65536)

\* the `for i in 0..fn_count` loop of decode; acc holds tag, data_offset, result
decode_fields(sproto, sproto_type, data, fn_count, i, acc) ==
    IF i >= fn_count THEN DecOk(Struct(acc.result))
    ELSE
    LET size == Len(data)
        value == read_u16_le(SliceFrom(data, SIZEOF_HEADER + i * SIZEOF_FIELD))
        tag == NextTag(acc.tag, value)
        decoded_value == value \div 2 - 1
        current_data_start == acc.data_offset
        external == value % 2 = 0 /\ decoded_value < 0
    IN  IF value % 2 # 0
        THEN decode_fields(sproto, sproto_type, data, fn_count, i + 1,
                           [acc EXCEPT !.tag = tag])
        ELSE IF external /\ acc.data_offset + SIZEOF_LENGTH > size
        THEN Truncated(acc.data_offset + SIZEOF_LENGTH, size)
        ELSE
        LET dsz == IF external THEN read_u32_le(SliceFrom(data, acc.data_offset)) ELSE 0
            data_offset == IF external THEN acc.data_offset + SIZEOF_LENGTH + dsz
                           ELSE acc.data_offset
        IN  IF external /\ data_offset > size THEN Truncated(data_offset, size)
            ELSE
            LET idx == FieldOfTag(sproto_type, tag)
            IN  IF idx = -1
                THEN decode_fields(sproto, sproto_type, data, fn_count, i + 1,
                                   [acc EXCEPT !.tag = tag, !.data_offset = data_offset])
                ELSE
                LET field == sproto_type.fields[idx + 1]
                    field_data == Slice(data, current_data_start, data_offset)
                    val == IF external
                           THEN IF field.is_array THEN decode_array(sproto, field, field_data)
                                ELSE decode_field_from_data(sproto, field, field_data)
                           ELSE decode_inline_value(field, decoded_value)
                IN  IF val.st # "ok" THEN val
                    ELSE decode_fields(sproto, sproto_type, data, fn_count, i + 1,
                                       [tag |-> tag, data_offset |-> data_offset,
                                        result |-> Insert(acc.result, field.name, val.val)])

decode(sproto, sproto_type, data) ==
    LET size == Len(data)
    IN  IF size < SIZEOF_HEADER THEN Truncated(SIZEOF_HEADER, size)
        ELSE LET fn_count == read_u16_le(data)
                 field_part_end == SIZEOF_HEADER + fn_count * SIZEOF_FIELD
             IN  IF size < field_part_end THEN Truncated(field_part_end, size)
                 ELSE decode_fields(sproto, sproto_type, data, fn_count, 0,
                                    [tag |-> -1, data_offset |-> field_part_end,
                                     result |-> EmptyMap])


-----------------------------------------------------------------------------
(* The schema of the codec scenarios, as parser::parse builds it from       *)
(*   .Blob   { bin 0 : binary  strs 1 : *string  who 3 : Person }           *)
(*   .Data   { numbers 0 : *integer  bools 1 : *boolean  number 2 : integer *)
(*             fpn 5 : double }                                             *)
(*   .Narrow { near 1 : integer  note 2 : string }                          *)
(*   .Person { name 0 : string  age 1 : integer  marital 2 : boolean        *)
(*             children 3 : *Person }                                       *)
(*   .Wide   { extra 0 : string  near 1 : integer  note 2 : string          *)
(*             far 32769 : integer }                                        *)
(* types sorted by name (so Person is types_list[3]), fields by tag,        *)
(* base_tag and maxn computed.                                              *)

CodecSchema ==
    [types_list |-> <<
        SprotoType("Blob", <<Field("bin", 0, TBinary, FALSE, 0),
                             Field("strs", 1, TString, TRUE, 0),
                             Field("who", 3, TStruct(3), FALSE, 0)>>),
        SprotoType("Data", <<Field("numbers", 0, TInteger, TRUE, 0),
                             Field("bools", 1, TBoolean, TRUE, 0),
                             Field("number", 2, TInteger, FALSE, 0),
                             Field("fpn", 5, TDouble, FALSE, 0)>>),
        SprotoType("Narrow", <<Field("near", 1, TInteger, FALSE, 0),
                               Field("note", 2, TString, FALSE, 0)>>),
        SprotoType("Person", <<Field("name", 0, TString, FALSE, 0),
                               Field("age", 1, TInteger, FALSE, 0),
                               Field("marital", 2, TBoolean, FALSE, 0),
                               Field("children", 3, TStruct(3), TRUE, 0)>>),
        SprotoType("Wide", <<Field("extra", 0, TString, FALSE, 0),
                             Field("near", 1, TInteger, FALSE, 0),
                             Field("note", 2, TString, FALSE, 0),
                             Field("far", 32769, TInteger, FALSE, 0)>>)
     >>,
     protocols |-> <<>>]

TypeAt(sproto, idx) == sproto.types_list[idx + 1]

\* how deep structs nest inside the value handed to encode
MaxDepth == 1

\* "Aé" and the quiet NaN
StrAe == <<65, 195, 169>>
DblNaN == <<0, 0, 0, 0, 0, 0, 248, 127>>

RECURSIVE FieldPalette(_, _, _)
RECURSIVE FullStruct(_, _, _)
RECURSIVE FullFields(_, _, _, _)

\* the struct of type idx with every field present, each with the first value
\* of its palette
FullFields(sproto, fields, i, depth) ==
    IF i > Len(fields) THEN EmptyMap
    ELSE LET pal == FieldPalette(sproto, fields[i], depth)
             rest == FullFields(sproto, fields, i + 1, depth)
         IN  IF pal = <<>> THEN rest ELSE Insert(rest, fields[i].name, pal[1])

FullStruct(sproto, idx, depth) ==
    Struct(FullFields(sproto, TypeAt(sproto, idx).fields, 1, depth))

\* the values a valid struct may hold in this field (values of the declared
\* shape), as a sequence; a struct nested at depth 0 has no struct fields
FieldPalette(sproto, field, depth) ==
    LET ft == field.field_type
        scalars ==
            CASE ft = TInteger -> <<Integer(Int7FFE), Integer(Int7FFF),
                                    Integer(IntMinus1), Integer(Int2p31)>>
              [] ft = TBoolean -> <<Boolean(TRUE), Boolean(FALSE)>>
              [] ft = TString -> <<Str(StrAe), Str(<<>>)>>
              [] ft = TBinary -> <<Binary(<<0, 255>>), Binary(<<>>)>>
              [] ft = TDouble -> <<Double(Dbl1p5), Double(DblNaN)>>
              [] IsStructType(ft) ->
                    IF depth = 0 THEN <<>>
                    ELSE <<FullStruct(sproto, ft[2], depth - 1), new_struct>>
        arrays ==
            CASE ft = TInteger -> <<Array(<<Integer(Int13), Integer(IntMinus1)>>),
                                    Array(<<Integer(Int13), Integer(IntMin)>>),
                                    Array(<<>>)>>
              [] ft = TBoolean -> <<Array(<<Boolean(TRUE), Boolean(FALSE)>>), Array(<<>>)>>
              [] ft = TDouble -> <<Array(<<Double(Dbl1p5)>>), Array(<<>>)>>
              [] OTHER -> IF scalars = <<>> THEN <<>>
                          ELSE <<Array(scalars), Array(<<>>)>>
    IN  IF field.is_array THEN arrays ELSE scalars

\* every struct valid for the fields from i on: each field absent or holding
\* a value of its palette
RECURSIVE ValidMaps(_, _, _, _)
ValidMaps(sproto, fields, i, depth) ==
    IF i > Len(fields) THEN {EmptyMap}
    ELSE LET pal == FieldPalette(sproto, fields[i], depth)
             rest == ValidMaps(sproto, fields, i + 1, depth)
         IN  rest \cup {Insert(m, fields[i].name, pal[k]) : m \in rest, k \in 1..Len(pal)}

ValidValues(sproto, idx) ==
    {Struct(m) : m \in ValidMaps(sproto, TypeAt(sproto, idx).fields, 1, MaxDepth)}

TypeIndexes(sproto) == 0..(Len(sproto.types_list) - 1)

-----------------------------------------------------------------------------
(* The codec scenario: encode, the bytes in flight (where they may be cut   *)
(* short or have one byte overwritten), decode, encode again.               *)

NoEnc == EncErr("none")
NoDec == DecErr("none")

\* the values a byte in flight may be overwritten with
TamperBytes == {0, 127}

\* the transport scenario is not running
PackIdle ==
    /\ psrc = <<>>
    /\ packed = <<>>
    /\ restored = [st |-> "none", bytes |-> <<>>]
    /\ ppc = "idle"

CodecInit ==
    /\ ctype \in TypeIndexes(CodecSchema)
    /\ cvalue \in ValidValues(CodecSchema, ctype)
    /\ wire = NoEnc
    /\ damage = "none"
    /\ dtype = -1
    /\ decoded = NoDec
    /\ reencoded = NoEnc
    /\ cpc = "start"

Encode ==
    /\ cpc = "start"
    /\ wire' = encode(CodecSchema, TypeAt(CodecSchema, ctype), cvalue)
    /\ cpc' = IF wire'.st = "ok" THEN "encoded" ELSE "failed"
    /\ UNCHANGED <<ctype, cvalue, damage, dtype, decoded, reencoded, codecOthers>>

\* only the first n bytes arrive
Truncate(n) ==
    /\ cpc = "encoded" /\ damage = "none"
    /\ n < Len(wire.bytes)
    /\ wire' = EncOk(SubSeq(wire.bytes, 1, n))
    /\ damage' = "cut"
    /\ UNCHANGED <<ctype, cvalue, dtype, decoded, reencoded, cpc, codecOthers>>

\* byte i arrives as b
Tamper(i, b) ==
    /\ cpc = "encoded" /\ damage = "none"
    /\ i \in 1..Len(wire.bytes)
    /\ wire.bytes[i] # b
    /\ wire' = EncOk([wire.bytes EXCEPT ![i] = b])
    /\ damage' = "tampered"
    /\ UNCHANGED <<ctype, cvalue, dtype, decoded, reencoded, cpc, codecOthers>>

\* messages of a peer: type Wide with only `far` (tag 32769) set to 13, the
\* 32769 absent tags before it covered by two skip descriptors; type Narrow with
\* `near` = 13 carried in a four-byte data region instead of inline
ForeignWires ==
    { <<3, 0, 255, 255, 1, 0, 28, 0>>,
      <<2, 0, 1, 0, 0, 0, 4, 0, 0, 0, 13, 0, 0, 0>> }

\* a message of a peer arrives
Receive(b) ==
    /\ cpc = "start"
    /\ wire' = EncOk(b)
    /\ damage' = "foreign"
    /\ ctype' = -1
    /\ cvalue' = NoValue
    /\ cpc' = "encoded"
    /\ UNCHANGED <<dtype, decoded, reencoded, codecOthers>>

Decode(t) ==
    /\ cpc = "encoded"
    /\ dtype' = t
    /\ decoded' = decode(CodecSchema, TypeAt(CodecSchema, t), wire.bytes)
    /\ cpc' = "decoded"
    /\ UNCHANGED <<ctype, cvalue, wire, damage, reencoded, codecOthers>>

Reencode ==
    /\ cpc = "decoded" /\ decoded.st = "ok"
    /\ reencoded' = encode(CodecSchema, TypeAt(CodecSchema, dtype), decoded.val)
    /\ cpc' = "reencoded"
    /\ UNCHANGED <<ctype, cvalue, wire, damage, dtype, decoded, codecOthers>>

MaxWire == 64

CodecNext ==
    \/ Encode
    \/ \E b \in ForeignWires : Receive(b)
    \/ \E n \in 0..MaxWire : Truncate(n)
    \/ \E i \in 1..MaxWire, b \in TamperBytes : Tamper(i, b)
    \/ \E t \in TypeIndexes(CodecSchema) : Decode(t)
    \/ Reencode



-----------------------------------------------------------------------------
(* The shape scenario: encode is handed values of every variant for fields  *)
(* of every declared type.                                                  *)

\* one field of each declared type, a fixed-point integer(2) and an array
ShapeSchema ==
    [types_list |-> <<
        SprotoType("Inner", <<Field("v", 0, TInteger, FALSE, 0)>>),
        SprotoType("Shape", <<Field("n", 0, TInteger, FALSE, 0),
                              Field("b", 1, TBoolean, FALSE, 0),
                              Field("d", 2, TDouble, FALSE, 0),
                              Field("s", 3, TString, FALSE, 0),
                              Field("bin", 4, TBinary, FALSE, 0),
                              Field("sub", 5, TStruct(0), FALSE, 0),
                              Field("fpn", 6, TInteger, FALSE, 100),
                              Field("ns", 7, TInteger, TRUE, 0)>>)
     >>,
     protocols |-> <<>>]

ShapeType == TypeAt(ShapeSchema, 1)

\* a value or two of every variant of SprotoValue
AnyValues ==
    << Integer(Int13), Integer(I64(182)), Boolean(TRUE), Double(Dbl1p82), Double(Dbl1p5),
       Str(StrAe), Binary(<<0, 255>>), new_struct, Array(<<>>),
       Array(<<Integer(Int13)>>) >>

\* the values a second field is given
MoreValues == << Integer(Int13), Str(StrAe) >>

\* the value handed to encode is a bare value, or a struct that gives any
\* value to one or to two fields of Shape
ShapeInit ==
    /\ ctype = 1
    /\ \E k \in 1..Len(AnyValues) :
          \/ cvalue = AnyValues[k]
          \/ \E i \in 1..Len(ShapeType.fields) :
                \/ cvalue = Struct(Insert(EmptyMap, ShapeType.fields[i].name, AnyValues[k]))
                \/ \E j \in 1..Len(ShapeType.fields), m \in 1..Len(MoreValues) :
                      cvalue = Struct(Insert(Insert(EmptyMap, ShapeType.fields[i].name,
                                                    AnyValues[k]),
                                             ShapeType.fields[j].name, MoreValues[m]))
    /\ wire = NoEnc
    /\ damage = "none"
    /\ dtype = -1
    /\ decoded = NoDec
    /\ reencoded = NoEnc
    /\ cpc = "shape"

EncodeShape ==
    /\ cpc = "shape"
    /\ wire' = encode(ShapeSchema, ShapeType, cvalue)
    /\ cpc' = "shaped"
    /\ UNCHANGED <<ctype, cvalue, damage, dtype, decoded, reencoded, codecOthers>>

ShapeNext == EncodeShape

-----------------------------------------------------------------------------
(* src/pack.rs *)

\* the 8-byte chunk at 0-based offset i of src, zero-padded past the end
Chunk(src, i) ==
    [k \in 1..8 |-> IF i + k <= Len(src) THEN src[i + k] ELSE 0]

RECURSIVE Pow2(_)
Pow2(n) == IF n = 0 THEN 1 ELSE 2 * Pow2(n - 1)

RECURSIVE TagBits(_, _)
TagBits(chunk, k) ==
    IF k > 8 THEN 0
    ELSE (IF chunk[k] # 0 THEN Pow2(k - 1) ELSE 0) + TagBits(chunk, k + 1)

\* compute_tag counting 6 and 7 non-zero bytes as 8
compute_tag_dense(chunk) ==
    [tag |-> TagBits(chunk, 1),
     notzero |-> IF Cardinality({k \in 1..8 : chunk[k] # 0}) >= 6 THEN 8
                 ELSE Cardinality({k \in 1..8 : chunk[k] # 0})]

compute_tag(chunk) ==
    [tag |-> TagBits(chunk, 1),
     notzero |-> Cardinality({k \in 1..8 : chunk[k] # 0})]

\* write_ff_data storing the number of words n, not n - 1, in the count byte
write_ff_data_count(src, src_len, result, src_start, des_start, n) ==
    LET total_bytes == n * 8
        src_end == IF src_start + total_bytes < src_len
                   THEN src_start + total_bytes ELSE src_len
        available == src_end - src_start
    IN  SubSeq(result, 1, des_start)
        \o <<255, n % 256>>
        \o Slice(src, src_start, src_end)
        \o Zeros(total_bytes - available)

\* write_ff_data without the zero fill past the end of src
write_ff_data_unfilled(src, src_len, result, src_start, des_start, n) ==
    LET total_bytes == n * 8
        src_end == IF src_start + total_bytes < src_len
                   THEN src_start + total_bytes ELSE src_len
    IN  SubSeq(result, 1, des_start)
        \o <<255, (n - 1) % 256>>
        \o Slice(src, src_start, src_end)

\* result with the reserved run at des_start filled in and result cut after it
write_ff_data(src, src_len, result, src_start, des_start, n) ==
    LET total_bytes == n * 8
        src_end == IF src_start + total_bytes < src_len
                   THEN src_start + total_bytes ELSE src_len
        available == src_end - src_start
    IN  SubSeq(result, 1, des_start)
        \o <<255, (n - 1) % 256>>
        \o Slice(src, src_start, src_end)
        \o Zeros(total_bytes - available)

NonZero(chunk) == SelectSeq(chunk, LAMBDA b : b # 0)

\* one iteration of the while loop of pack on the loop state st: the offset i,
\* the result so far and the pending 0xFF run (ff_src_start, ff_des_start, ff_n)
pack_step(src, st) ==
    LET srcsz == Len(src)
        chunk == Chunk(src, st.i)
        t == compute_tag(chunk)
        notzero == IF t.notzero \in {6, 7} /\ st.ff_n > 0 THEN 8 ELSE t.notzero
    IN  IF notzero = 8
        THEN IF st.ff_n > 0
             THEN IF st.ff_n + 1 = 256
                  THEN [st EXCEPT
                          !.i = @ + 8,
                          !.result = write_ff_data(src, srcsz, st.result \o Zeros(8),
                                         st.ff_src_start, st.ff_des_start, st.ff_n + 1),
                          !.ff_n = 0]
                  ELSE [st EXCEPT !.i = @ + 8,
                                  !.result = @ \o Zeros(8),
                                  !.ff_n = @ + 1]
             ELSE [i |-> st.i + 8,
                   result |-> st.result \o Zeros(10),
                   ff_src_start |-> st.i,
                   ff_des_start |-> Len(st.result),
                   ff_n |-> 1]
        ELSE LET flushed == IF st.ff_n > 0
                            THEN write_ff_data(src, srcsz, st.result,
                                     st.ff_src_start, st.ff_des_start, st.ff_n)
                            ELSE st.result
             IN  [st EXCEPT !.i = @ + 8,
                            !.result = flushed \o <<t.tag>> \o NonZero(chunk),
                            !.ff_n = 0]

\* the loop state after n more iterations
RECURSIVE pack_loop(_, _, _)
pack_loop(src, st, n) ==
    IF n = 0 \/ st.i >= Len(src) THEN st
    ELSE IF n = 1 THEN pack_step(src, st)
    ELSE pack_loop(src, pack_loop(src, st, n \div 2), n - (n \div 2))

pack(src) ==
    LET srcsz == Len(src) IN
    IF srcsz = 0 THEN <<>>
    ELSE LET st == pack_loop(src,
                       [i |-> 0, result |-> <<>>, ff_src_start |-> 0,
                        ff_des_start |-> 0, ff_n |-> 0],
                       (srcsz + 7) \div 8)
         IN  IF st.ff_n > 0
             THEN write_ff_data(src, srcsz, st.result,
                                st.ff_src_start, st.ff_des_start, st.ff_n)
             ELSE st.result

UnpackOk(bytes) == [st |-> "ok", bytes |-> bytes]
UnpackErr == [st |-> "InvalidData", bytes |-> <<>>]

\* unpack_bits without the test for the end of src: a missing byte reads as 0
RECURSIVE unpack_bits_unchecked(_, _, _, _, _)
unpack_bits_unchecked(src, header, bit, i, out) ==
    IF bit = 8 THEN [ok |-> TRUE, i |-> i, out |-> out]
    ELSE IF (header \div Pow2(bit)) % 2 # 0
         THEN unpack_bits_unchecked(src, header, bit + 1, i + 1,
                  Append(out, IF i >= Len(src) THEN 0 ELSE src[i + 1]))
         ELSE unpack_bits_unchecked(src, header, bit + 1, i, Append(out, 0))

\* the normal segment of `header` from bit on: the index after it and the bytes
\* it yields, or an error when src ends inside it
RECURSIVE unpack_bits(_, _, _, _, _)
unpack_bits(src, header, bit, i, out) ==
    IF bit = 8 THEN [ok |-> TRUE, i |-> i, out |-> out]
    ELSE IF (header \div Pow2(bit)) % 2 # 0
         THEN IF i >= Len(src)
              THEN [ok |-> FALSE, i |-> i, out |-> out]
              ELSE unpack_bits(src, header, bit + 1, i + 1, Append(out, src[i + 1]))
         ELSE unpack_bits(src, header, bit + 1, i, Append(out, 0))

RECURSIVE unpack_loop(_, _, _)
unpack_loop(src, i, result) ==
    IF i >= Len(src) THEN UnpackOk(result)
    ELSE LET header == src[i + 1] IN
         IF header = 255
         THEN IF i + 1 >= Len(src) THEN UnpackErr
              ELSE LET n == (src[i + 2] + 1) * 8 IN
                   IF i + 2 + n > Len(src) THEN UnpackErr
                   ELSE unpack_loop(src, i + 2 + n,
                                    result \o Slice(src, i + 2, i + 2 + n))
         ELSE LET seg == unpack_bits(src, header, 0, i + 1, <<>>) IN
              IF ~seg.ok THEN UnpackErr
              ELSE unpack_loop(src, seg.i, result \o seg.out)

unpack(src) == unpack_loop(src, 0, <<>>)

-----------------------------------------------------------------------------
(* The transport scenario: pack a buffer, unpack the result *)

\* 8-byte words with 0, 3, 6, 7 and 8 non-zero bytes
PackWords ==
    { <<0, 0, 0, 0, 0, 0, 0, 0>>,
      <<1, 0, 0, 2, 0, 0, 3, 0>>,
      <<0, 255, 3, 4, 5, 0, 7, 8>>,
      <<1, 2, 3, 4, 5, 6, 7, 0>>,
      <<255, 2, 3, 4, 5, 6, 7, 8>> }

\* at most this many words follow the leading run
MaxWords == 3

\* lengths (in words) of the leading run of words without a zero byte: none, or
\* one that the following words make reach, fill and pass the 256 words a
\* single 0xFF segment can hold
RunLens == {0, 254}

RECURSIVE Flatten(_)
Flatten(ws) == IF ws = <<>> THEN <<>> ELSE Head(ws) \o Flatten(Tail(ws))

Repeat(w, n) == [k \in 1..(n * Len(w)) |-> w[((k - 1) % Len(w)) + 1]]

WordSeqs == UNION {[1..n -> PackWords] : n \in 0..MaxWords}

\* the buffer all cut short by c bytes
CutShort(all, c) == SubSeq(all, 1, Len(all) - c)

\* the buffers handed to pack: a run of full words, some words, the last one
\* cut short by up to 7 bytes
PackInputs ==
    { CutShort(Repeat(<<9, 8, 7, 6, 5, 4, 3, 2>>, r) \o Flatten(ws), c) :
        r \in RunLens, ws \in WordSeqs, c \in 0..7 }

\* the codec scenario is not running
CodecIdle ==
    /\ ctype = -1
    /\ cvalue = NoValue
    /\ wire = NoEnc
    /\ damage = "none"
    /\ dtype = -1
    /\ decoded = NoDec
    /\ reencoded = NoEnc
    /\ cpc = "idle"

PackInit ==
    /\ psrc \in PackInputs
    /\ packed = <<>>
    /\ restored = [st |-> "none", bytes |-> <<>>]
    /\ ppc = "start"

Pack ==
    /\ ppc = "start"
    /\ packed' = pack(psrc)
    /\ ppc' = "packed"
    /\ UNCHANGED <<psrc, restored, packOthers>>

Unpack ==
    /\ ppc = "packed"
    /\ restored' = unpack(packed)
    /\ ppc' = "restored"
    /\ UNCHANGED <<psrc, packed, packOthers>>

PackNext == Pack \/ Unpack

\* at most this many segments make up a received buffer
MaxSegments == 2

\* the payload byte of the received segments; read as a tag it has three bits
PayloadByte == 7

\* segments as they arrive: a tag and all or only some of the bytes it
\* announces, a 0xFF tag alone, a 0xFF tag with its count and a payload that
\* is short, exact or long
UnpackSegments ==
    { <<t[1]>> \o Fill(k, PayloadByte) :
        t \in { <<0, 0>>, <<1, 1>>, <<5, 2>>, <<128, 1>>, <<254, 7>> },
        k \in 0..7 }
    \cup { <<255>> }
    \cup { <<255, c>> \o Fill(k, PayloadByte) :
              c \in {0, 1}, k \in {0, 7, 8, 9, 15, 16} }

\* the buffers handed to unpack that pack did not produce
UnpackInputs ==
    { Flatten(segs) : segs \in UNION {[1..n -> UnpackSegments] : n \in 0..MaxSegments} }

UnpackInit ==
    /\ psrc = <<>>
    /\ packed \in UnpackInputs
    /\ restored = [st |-> "none", bytes |-> <<>>]
    /\ ppc = "received"

UnpackReceived ==
    /\ ppc = "received"
    /\ restored' = unpack(packed)
    /\ ppc' = "unpacked"
    /\ UNCHANGED <<psrc, packed, packOthers>>

UnpackNext == UnpackReceived



-----------------------------------------------------------------------------
(* src/rpc/mod.rs.  An Option is a sequence: None is <<>>, Some(x) is <<x>>. *)

None == <<>>
Some(x) == <<x>>
IsSome(o) == o # <<>>
Unwrap(o) == o[1]

\* src/types.rs: Protocol
Protocol(name, tag, request, response) ==
    [name |-> name, tag |-> tag, request |-> request, response |-> response]

\* Sproto::get_type_index
get_type_index(sproto, name) ==
    LET found == {i \in 1..Len(sproto.types_list) : sproto.types_list[i].name = name}
    IN  IF found = {} THEN None ELSE Some((CHOOSE i \in found : TRUE) - 1)

\* Sproto::get_protocol
get_protocol(sproto, name) ==
    LET found == {i \in 1..Len(sproto.protocols) : sproto.protocols[i].name = name}
    IN  IF found = {} THEN None ELSE Some(sproto.protocols[CHOOSE i \in found : TRUE])

\* Sproto::get_protocol_by_tag
get_protocol_by_tag(sproto, tag) ==
    LET found == {i \in 1..Len(sproto.protocols) : sproto.protocols[i].tag = tag}
    IN  IF found = {} THEN None ELSE Some(sproto.protocols[CHOOSE i \in found : TRUE])

\* `v as u16` for an i64 v
AsU16(v) == v[1] + 256 * v[2]

\* `tag as i64` for a u16 tag
U16AsI64(tag) == write_u16_le(tag) \o Zeros(6)

\* header_map.get(key).and_then(|v| v.as_integer())
GetInteger(map, key) ==
    IF key \in DOMAIN map /\ map[key].kind = "integer" THEN Some(map[key].val) ELSE None

\* a remove that empties the map
RemoveAll(map, k) == EmptyMap

\* HashMap::remove
Remove(map, k) == [x \in (DOMAIN map) \ {k} |-> map[x]]

\* the package header value: from_fields of the pairs that are present
HeaderValue(type, session, ud) ==
    Struct((IF IsSome(ud) THEN "ud" :> Integer(Unwrap(ud)) ELSE EmptyMap)
           @@ (IF IsSome(session) THEN "session" :> Integer(Unwrap(session)) ELSE EmptyMap)
           @@ (IF IsSome(type) THEN "type" :> Integer(Unwrap(type)) ELSE EmptyMap))

RpcOk(bytes) == [st |-> "ok", bytes |-> bytes]
RpcErr(e) == [st |-> e, bytes |-> <<>>]

\* struct Responder
Responder(package_type_idx, response_type_idx, session) ==
    [package_type_idx |-> package_type_idx,
     response_type_idx |-> response_type_idx,
     session |-> session]

\* `header_bin` and `content_bin` combined and packed, or the first error
Combine(header_bin, content_bin) ==
    IF header_bin.st # "ok" THEN RpcErr(header_bin.st)
    ELSE IF content_bin.st # "ok" THEN RpcErr(content_bin.st)
    ELSE RpcOk(pack(header_bin.bytes \o content_bin.bytes))

\* respond carrying the session as a 32-bit integer
respond_u32(sproto, self, message, ud) ==
    LET package_type == TypeAt(sproto, self.package_type_idx)
    IN  Combine(encode(sproto, package_type,
                       HeaderValue(None,
                                   Some(SubSeq(self.session, 1, 4) \o Zeros(4)), ud)),
                IF IsSome(self.response_type_idx)
                THEN encode(sproto, TypeAt(sproto, Unwrap(self.response_type_idx)), message)
                ELSE EncOk(<<>>))

\* Responder::respond(&self, message, ud), on the schema the responder holds
respond(sproto, self, message, ud) ==
    LET package_type == TypeAt(sproto, self.package_type_idx)
    IN  Combine(encode(sproto, package_type, HeaderValue(None, Some(self.session), ud)),
                IF IsSome(self.response_type_idx)
                THEN encode(sproto, TypeAt(sproto, Unwrap(self.response_type_idx)), message)
                ELSE EncOk(<<>>))

\* struct RequestSender, as Host::attach builds it
RequestSender(local_sproto, remote_sproto, package_type_idx) ==
    [local_sproto |-> local_sproto, remote_sproto |-> remote_sproto,
     package_type_idx |-> package_type_idx, sessions |-> EmptyMap]

\* RequestSender::request(&mut self, ..): the result and self.sessions after it
request(self, protocol_name, message, session, ud) ==
    LET proto == get_protocol(self.remote_sproto, protocol_name) IN
    IF ~IsSome(proto)
    THEN [result |-> RpcErr("UnknownProtocol"), sessions |-> self.sessions]
    ELSE
    LET p == Unwrap(proto)
        package_type == TypeAt(self.local_sproto, self.package_type_idx)
        \* the session is stored once both parts are encoded
        Store(result) ==
            [result |-> result,
             sessions |-> IF result.st = "ok" /\ IsSome(session)
                          THEN Insert(self.sessions, Unwrap(session), p.response)
                          ELSE self.sessions]
    IN  Store(Combine(encode(self.local_sproto, package_type,
                             HeaderValue(Some(U16AsI64(p.tag)), session, ud)),
                      IF IsSome(p.request)
                      THEN encode(self.remote_sproto,
                                  TypeAt(self.remote_sproto, Unwrap(p.request)), message)
                      ELSE EncOk(<<>>)))

\* struct Host, as Host::new builds it
Host(sproto, package_name) ==
    [sproto |-> sproto,
     package_type_idx |-> Unwrap(get_type_index(sproto, package_name)),
     sessions |-> EmptyMap]

\* Host::attach
attach(self, remote_sproto) ==
    RequestSender(self.sproto, remote_sproto, self.package_type_idx)

\* Host::register_session: self.sessions after it
register_session(self, session, response_type_idx) ==
    Insert(self.sessions, session, response_type_idx)

\* DispatchResult and RpcError, in one record shape
DispatchRequest(name, message, responder, ud) ==
    [st |-> "Request", name |-> name, message |-> Some(message),
     responder |-> responder, ud |-> ud, session |-> None]
DispatchResponse(session, message, ud) ==
    [st |-> "Response", name |-> "", message |-> message,
     responder |-> None, ud |-> ud, session |-> Some(session)]
DispatchErr(e, session) ==
    [st |-> e, name |-> "", message |-> None,
     responder |-> None, ud |-> None, session |-> session]
NoDispatch == DispatchErr("none", None)

\* dispatch_request building a responder (for session 0) when the packet has
\* no session
dispatch_request_responder(self, proto_tag, session, ud, content) ==
    LET proto == get_protocol_by_tag(self.sproto, AsU16(proto_tag)) IN
    IF ~IsSome(proto) THEN DispatchErr("UnknownProtocol", None)
    ELSE
    LET p == Unwrap(proto)
        responder == Some(Responder(self.package_type_idx, p.response,
                                    IF IsSome(session) THEN Unwrap(session) ELSE I64(0)))
        Result(message) ==
            IF message.st # "ok" THEN DispatchErr(message.st, None)
            ELSE DispatchRequest(p.name, message.val, responder, ud)
    IN  Result(IF IsSome(p.request) /\ content # <<>>
               THEN decode(self.sproto, TypeAt(self.sproto, Unwrap(p.request)), content)
               ELSE DecOk(new_struct))

\* the REQUEST branch of Host::dispatch
dispatch_request(self, proto_tag, session, ud, content) ==
    LET proto == get_protocol_by_tag(self.sproto, AsU16(proto_tag)) IN
    IF ~IsSome(proto) THEN DispatchErr("UnknownProtocol", None)
    ELSE
    LET p == Unwrap(proto)
        responder == IF IsSome(session)
                     THEN Some(Responder(self.package_type_idx, p.response, Unwrap(session)))
                     ELSE None
        Result(message) ==
            IF message.st # "ok" THEN DispatchErr(message.st, None)
            ELSE DispatchRequest(p.name, message.val, responder, ud)
    IN  Result(IF IsSome(p.request) /\ content # <<>>
               THEN decode(self.sproto, TypeAt(self.sproto, Unwrap(p.request)), content)
               ELSE DecOk(new_struct))

\* dispatch_response reading the session table with get, not remove
dispatch_response_get(self, session, ud, content) ==
    IF ~IsSome(session)
    THEN [result |-> DispatchErr("InvalidData", None), sessions |-> self.sessions]
    ELSE
    LET session_id == Unwrap(session) IN
    IF session_id \notin DOMAIN self.sessions
    THEN [result |-> DispatchErr("UnknownSession", Some(session_id)),
          sessions |-> self.sessions]
    ELSE
    LET response_type_idx == self.sessions[session_id]
        has_message == IsSome(response_type_idx) /\ content # <<>>
        Result(message) ==
            IF message.st # "ok"
            THEN [result |-> DispatchErr(message.st, None), sessions |-> self.sessions]
            ELSE [result |-> DispatchResponse(session_id,
                                  IF has_message THEN Some(message.val) ELSE None, ud),
                  sessions |-> self.sessions]
    IN  Result(IF has_message
               THEN decode(self.sproto,
                           TypeAt(self.sproto, Unwrap(response_type_idx)), content)
               ELSE DecOk(NoValue))

\* the RESPONSE branch of Host::dispatch: the result and self.sessions after it
dispatch_response(self, session, ud, content) ==
    IF ~IsSome(session)
    THEN [result |-> DispatchErr("InvalidData", None), sessions |-> self.sessions]
    ELSE
    LET session_id == Unwrap(session) IN
    IF session_id \notin DOMAIN self.sessions
    THEN [result |-> DispatchErr("UnknownSession", Some(session_id)),
          sessions |-> self.sessions]
    ELSE
    LET response_type_idx == self.sessions[session_id]
        removed == Remove(self.sessions, session_id)
        has_message == IsSome(response_type_idx) /\ content # <<>>
        Result(message) ==
            IF message.st # "ok"
            THEN [result |-> DispatchErr(message.st, None), sessions |-> removed]
            ELSE [result |-> DispatchResponse(session_id,
                                  IF has_message THEN Some(message.val) ELSE None, ud),
                  sessions |-> removed]
    IN  Result(IF has_message
               THEN decode(self.sproto,
                           TypeAt(self.sproto, Unwrap(response_type_idx)), content)
               ELSE DecOk(NoValue))

\* Host::dispatch once the header is decoded and encoded again
dispatch_content(self, unpacked, header, header_bin) ==
    LET header_map == header.val.val
        proto_type == GetInteger(header_map, "type")
        session == GetInteger(header_map, "session")
        ud == GetInteger(header_map, "ud")
        Fail(e) == [result |-> DispatchErr(e, None), sessions |-> self.sessions]
    IN
    IF header_bin.st # "ok" THEN Fail(header_bin.st)
    ELSE IF Len(header_bin.bytes) > Len(unpacked) THEN Fail("panic")
    ELSE
    LET content == SliceFrom(unpacked, Len(header_bin.bytes)) IN
    IF IsSome(proto_type)
    THEN [result |-> dispatch_request(self, Unwrap(proto_type), session, ud, content),
          sessions |-> self.sessions]
    ELSE dispatch_response(self, session, ud, content)

\* Host::dispatch once the packet is unpacked and the header decoded
dispatch_header(self, unpacked, header) ==
    IF header.st # "ok"
    THEN [result |-> DispatchErr(header.st, None), sessions |-> self.sessions]
    ELSE dispatch_content(self, unpacked, header,
             encode(self.sproto, TypeAt(self.sproto, self.package_type_idx), header.val))

\* Host::dispatch once the packet is unpacked
dispatch_unpacked(self, unpacked) ==
    IF unpacked.st # "ok"
    THEN [result |-> DispatchErr(unpacked.st, None), sessions |-> self.sessions]
    ELSE dispatch_header(self, unpacked.bytes,
             decode(self.sproto, TypeAt(self.sproto, self.package_type_idx),
                    unpacked.bytes))

\* Host::dispatch(&mut self, packed_data): the result and self.sessions after it
dispatch(self, packed_data) == dispatch_unpacked(self, unpack(packed_data))

-----------------------------------------------------------------------------
(* The rpc scenario.  The schema, as parser::parse builds it from           *)
(*   .package { type 0 : integer  session 1 : integer  ud 2 : integer }     *)
(*   echo 1   { request { text 0 : string  n 1 : integer }                  *)
(*              response { text 0 : string } }                              *)
(*   notify 2 { request { n 0 : integer } }                                 *)
(*   ping 3   { response { ok 0 : boolean } }                               *)
(* with the types sorted by name.                                           *)

RpcSchema ==
    [types_list |-> <<
        SprotoType("echo.request", <<Field("text", 0, TString, FALSE, 0),
                                     Field("n", 1, TInteger, FALSE, 0)>>),
        SprotoType("echo.response", <<Field("text", 0, TString, FALSE, 0)>>),
        SprotoType("notify.request", <<Field("n", 0, TInteger, FALSE, 0)>>),
        SprotoType("package", <<Field("type", 0, TInteger, FALSE, 0),
                                Field("session", 1, TInteger, FALSE, 0),
                                Field("ud", 2, TInteger, FALSE, 0)>>),
        SprotoType("ping.response", <<Field("ok", 0, TBoolean, FALSE, 0)>>)
     >>,
     protocols |-> <<Protocol("echo", 1, Some(0), Some(1)),
                     Protocol("notify", 2, Some(2), None),
                     Protocol("ping", 3, None, Some(4))>>]

ProtocolNames == {RpcSchema.protocols[i].name : i \in 1..Len(RpcSchema.protocols)}

\* the messages of the scenario for a type (None: the protocol has no such type)
RpcMessages(type_idx) ==
    IF ~IsSome(type_idx) THEN {new_struct, Struct("n" :> Integer(Int13))}
    ELSE LET name == TypeAt(RpcSchema, Unwrap(type_idx)).name IN
         CASE name = "echo.request" ->
                {new_struct, Struct("text" :> Str(StrAe) @@ "n" :> Integer(IntMinus1))}
           [] name = "echo.response" -> {new_struct, Struct("text" :> Str(StrAe))}
           [] name = "notify.request" -> {Struct("n" :> Integer(Int2p31))}
           [] name = "ping.response" -> {new_struct, Struct("ok" :> Boolean(TRUE))}

\* session ids: 1, 2^63 and 2^64 - 1
SessionIds == {I64(1), IntMin, IntMinus1}

\* another session id the client may register: 2^31
OtherSession == Int2p31

UserData == {None, Some(IntMinus1)}

\* the session table of the client holds at most this many sessions
MaxSessions == 1

\* a responder is asked for a packet at most this many times
MaxResponds == 2

\* the client dispatches at most this many response packets
MaxDispatches == 2

NoSent == [name |-> "", message |-> NoValue, session |-> None, ud |-> None]
NoAnswer == [message |-> NoValue, ud |-> None]
NoLast ==
    [session |-> <<>>, had |-> FALSE, type |-> None, again |-> FALSE,
     packet |-> <<>>, answer |-> NoAnswer, result |-> NoDispatch]

\* the rpc scenario is not running
RpcIdle ==
    /\ hsessions = EmptyMap
    /\ ssessions = EmptyMap
    /\ sent = NoSent
    /\ reqpkt = RpcErr("none")
    /\ incoming = NoDispatch
    /\ answer = NoAnswer
    /\ nresponds = 0
    /\ resppkt = RpcErr("none")
    /\ lastd = NoLast
    /\ ndispatches = 0
    /\ registered = FALSE
    /\ rpc = "idle"

\* both hosts are built by Host::new(schema, "package"); the client's sender by
\* Host::attach
RpcInit ==
    /\ hsessions = Host(RpcSchema, "package").sessions
    /\ ssessions = attach(Host(RpcSchema, "package"), RpcSchema).sessions
    /\ sent = NoSent
    /\ reqpkt = RpcErr("none")
    /\ incoming = NoDispatch
    /\ answer = NoAnswer
    /\ nresponds = 0
    /\ resppkt = RpcErr("none")
    /\ lastd = NoLast
    /\ ndispatches = 0
    /\ registered = FALSE
    /\ rpc = "start"

ClientHost == [Host(RpcSchema, "package") EXCEPT !.sessions = hsessions]
ClientSender == [attach(ClientHost, RpcSchema) EXCEPT !.sessions = ssessions]
ServerHost == Host(RpcSchema, "package")

\* the client calls sender.request(name, message, session, ud)
SendRequest(name, message, session, ud) ==
    /\ rpc = "start"
    /\ LET Done(r) ==
               /\ reqpkt' = r.result
               /\ ssessions' = r.sessions
               /\ rpc' = IF r.result.st = "ok" THEN "requested" ELSE "failed"
       IN  Done(request(ClientSender, name, message, session, ud))
    /\ sent' = [name |-> name, message |-> message, session |-> session, ud |-> ud]
    /\ UNCHANGED <<hsessions, incoming, answer, nresponds, resppkt, lastd, ndispatches, registered,
                   rpcOthers>>

\* the client calls host.register_session(session, response_type_idx)
Register(session, response_type_idx) ==
    /\ rpc \in {"requested", "arrived", "responded"}
    /\ Cardinality(DOMAIN hsessions \cup {session}) <= MaxSessions
    /\ hsessions' = register_session(ClientHost, session, response_type_idx)
    /\ registered' = TRUE
    /\ UNCHANGED <<ssessions, sent, reqpkt, incoming, answer, nresponds, resppkt,
                   lastd, ndispatches, rpc, rpcOthers>>

\* the server calls host.dispatch(reqpkt)
ServerDispatch ==
    /\ rpc = "requested"
    /\ incoming' = dispatch(ServerHost, reqpkt.bytes).result
    /\ rpc' = "arrived"
    /\ UNCHANGED <<hsessions, ssessions, sent, reqpkt, answer, nresponds, resppkt,
                   lastd, ndispatches, registered, rpcOthers>>

\* the server calls responder.respond(message, ud) on the responder of incoming
Respond(message, ud) ==
    /\ rpc \in {"arrived", "responded"}
    /\ IsSome(incoming.responder)
    /\ nresponds < MaxResponds
    /\ resppkt' = respond(RpcSchema, Unwrap(incoming.responder), message, ud)
    /\ resppkt'.st = "ok"
    /\ answer' = [message |-> message, ud |-> ud]
    /\ nresponds' = nresponds + 1
    /\ rpc' = "responded"
    /\ UNCHANGED <<hsessions, ssessions, sent, reqpkt, incoming, lastd, ndispatches, registered,
                   rpcOthers>>

\* the client calls host.dispatch(resppkt); lastd records the session the packet
\* was made for, whether the table held it and with which type, whether this
\* follows a successful dispatch of the same packet with no registration in
\* between, the packet and the answer it carries, and the result
ClientDispatch ==
    /\ rpc = "responded"
    /\ ndispatches < MaxDispatches
    /\ LET s == Unwrap(incoming.responder).session
           Done(r) ==
               /\ hsessions' = r.sessions
               /\ lastd' = [session |-> s,
                            had |-> s \in DOMAIN hsessions,
                            type |-> IF s \in DOMAIN hsessions THEN hsessions[s] ELSE None,
                            again |-> /\ lastd.result.st = "Response"
                                      /\ lastd.packet = resppkt.bytes
                                      /\ ~registered,
                            packet |-> resppkt.bytes,
                            answer |-> answer,
                            result |-> r.result]
       IN  Done(dispatch(ClientHost, resppkt.bytes))
    /\ ndispatches' = ndispatches + 1
    /\ registered' = FALSE
    /\ UNCHANGED <<ssessions, sent, reqpkt, incoming, answer, nresponds, resppkt,
                   rpc, rpcOthers>>

\* the types a client may register a session with: none, or the response type
\* of the protocol it called
RegisterTypes ==
    IF rpc = "start" THEN {None}
    ELSE {None, Unwrap(get_protocol(RpcSchema, sent.name)).response}

\* the messages the server may answer with
AnswerMessages ==
    IF IsSome(incoming.responder)
    THEN RpcMessages(Unwrap(incoming.responder).response_type_idx)
    ELSE {}

RpcNext ==
    \/ \E name \in ProtocolNames, session \in {None} \cup {Some(s) : s \in SessionIds},
          ud \in UserData :
         \E message \in RpcMessages(Unwrap(get_protocol(RpcSchema, name)).request) :
            SendRequest(name, message, session, ud)
    \/ \E session \in (IF IsSome(sent.session) THEN {Unwrap(sent.session)} ELSE {})
                         \cup {OtherSession},
          t \in RegisterTypes : Register(session, t)
    \/ ServerDispatch
    \/ \E ud \in UserData, message \in AnswerMessages : Respond(message, ud)
    \/ ClientDispatch

-----------------------------------------------------------------------------
(* The packet scenario: a host dispatches a packet that another             *)
(* implementation of the format has written.                                *)

\* how a writer puts a field on the wire: not at all, in its descriptor, or
\* as a block of the data part
Absent == [form |-> "absent"]
InDescriptor(v) == [form |-> "inline", v |-> v]
InData(bytes) == [form |-> "data", bytes |-> bytes]

\* the message with the field of tag i - 1 written as forms[i]: the field
\* count, the descriptors (with a skip descriptor where tags are left out) and
\* the data part
RECURSIVE ForeignMessage(_, _, _, _, _)
ForeignMessage(forms, i, last, descs, data) ==
    IF i > Len(forms)
    THEN write_u16_le(Len(descs) \div 2) \o descs \o data
    ELSE IF forms[i].form = "absent"
         THEN ForeignMessage(forms, i + 1, last, descs, data)
         ELSE LET gap == (i - 1) - last - 1
                  skip == IF gap > 0 THEN write_u16_le((gap - 1) * 2 + 1) ELSE <<>>
              IN  IF forms[i].form = "inline"
                  THEN ForeignMessage(forms, i + 1, i - 1,
                                      descs \o skip \o write_u16_le((forms[i].v + 1) * 2),
                                      data)
                  ELSE ForeignMessage(forms, i + 1, i - 1,
                                      descs \o skip \o write_u16_le(0),
                                      data \o write_u32_le(Len(forms[i].bytes))
                                           \o forms[i].bytes)

\* the ways a peer writes the header fields type (tag 0), session (tag 1) and
\* ud (tag 2), and a field of tag 3 that a later version of the package type
\* may have
TypeForms == <<Absent, InDescriptor(1), InDescriptor(2), InDescriptor(3),
               InData(write_u32_le(1))>>
SessionForms == <<Absent, InDescriptor(1), InData(write_u32_le(1)), InData(I64(1))>>
UdForms == <<Absent, InDescriptor(7)>>
LaterForms == <<Absent, InDescriptor(7), InData(<<97>>)>>

\* what follows the header: nothing, an echo request, an echo response, a
\* notify request
ForeignContents ==
    << <<>>,
       encode(RpcSchema, TypeAt(RpcSchema, 0),
              Struct("text" :> Str(StrAe) @@ "n" :> Integer(Int13))).bytes,
       encode(RpcSchema, TypeAt(RpcSchema, 1), Struct("text" :> Str(StrAe))).bytes,
       encode(RpcSchema, TypeAt(RpcSchema, 2), Struct("n" :> Integer(Int13))).bytes >>

\* the host has no session, or session 1 registered for an echo response
PacketInit ==
    /\ hsessions \in {Host(RpcSchema, "package").sessions,
                      register_session(Host(RpcSchema, "package"), I64(1), Some(1))}
    /\ ssessions = EmptyMap
    /\ sent = NoSent
    /\ \E t \in 1..Len(TypeForms), s \in 1..Len(SessionForms), u \in 1..Len(UdForms),
          l \in 1..Len(LaterForms), c \in 1..Len(ForeignContents) :
          reqpkt = RpcOk(pack(ForeignMessage(<<TypeForms[t], SessionForms[s], UdForms[u],
                                               LaterForms[l]>>, 1, -1, <<>>, <<>>)
                              \o ForeignContents[c]))
    /\ incoming = NoDispatch
    /\ answer = NoAnswer
    /\ nresponds = 0
    /\ resppkt = RpcErr("none")
    /\ lastd = NoLast
    /\ ndispatches = 0
    /\ registered = FALSE
    /\ rpc = "offered"

\* the host calls dispatch(reqpkt)
TakePacket ==
    /\ rpc = "offered"
    /\ LET Done(r) ==
               /\ incoming' = r.result
               /\ hsessions' = r.sessions
       IN  Done(dispatch(ClientHost, reqpkt.bytes))
    /\ rpc' = "taken"
    /\ UNCHANGED <<ssessions, sent, reqpkt, answer, nresponds, resppkt, lastd,
                   ndispatches, registered, rpcOthers>>

PacketNext == TakePacket

-----------------------------------------------------------------------------
(* src/parser/ast.rs, src/parser/schema_builder.rs                          *)
(* Names are strings of bytes, so that they can be joined, cut and sorted.  *)

\* "."
DotStr == <<46>>

\* the names of the built-in types
StrInteger == <<105, 110, 116, 101, 103, 101, 114>>
StrBoolean == <<98, 111, 111, 108, 101, 97, 110>>
StrString == <<115, 116, 114, 105, 110, 103>>
StrBinary == <<98, 105, 110, 97, 114, 121>>
StrDouble == <<100, 111, 117, 98, 108, 101>>
\* "request" and "response"
StrRequest == <<114, 101, 113, 117, 101, 115, 116>>
StrResponse == <<114, 101, 115, 112, 111, 110, 115, 101>>

\* AstType; AstMember::NestedType(t) and AstItem::Type(t) are t itself
AstType(name, members) ==
    [kind |-> "type", name |-> name, tag |-> 0, is_array |-> FALSE,
     type_name |-> <<>>, extra |-> None, members |-> members]

\* AstMember::Field(AstField)
AstField(name, tag, is_array, type_name, extra) ==
    [kind |-> "field", name |-> name, tag |-> tag, is_array |-> is_array,
     type_name |-> type_name, extra |-> extra, members |-> <<>>]

\* Option<AstProtoType>
TypeName(n) == [kind |-> "name", name |-> n, members |-> <<>>]
InlineStruct(members) == [kind |-> "inline", name |-> <<>>, members |-> members]
Nil == [kind |-> "nil", name |-> <<>>, members |-> <<>>]
NoProtoType == [kind |-> "none", name |-> <<>>, members |-> <<>>]

\* AstItem::Protocol(AstProtocol)
AstProtocol(name, tag, req, resp) ==
    [kind |-> "protocol", name |-> name, tag |-> tag,
     request |-> req, response |-> resp]

RawField(name, tag, is_array, type_name, extra) ==
    [name |-> name, tag |-> tag, is_array |-> is_array,
     type_name |-> type_name, extra |-> extra]

RawProtocol(name, tag, req, resp) ==
    [name |-> name, tag |-> tag, request |-> req, response |-> resp]

\* Field with the two members the codec does not read
FieldWithKey(name, tag, field_type, is_array, key_tag, is_map, decimal_precision) ==
    [name |-> name, tag |-> tag, field_type |-> field_type, is_array |-> is_array,
     key_tag |-> key_tag, is_map |-> is_map, decimal_precision |-> decimal_precision]

\* the type with base_tag and maxn computed from its fields
BuiltType(name, fields) ==
    [name |-> name, fields |-> fields,
     base_tag |-> compute_base_tag_and_maxn(fields).base_tag,
     maxn |-> compute_base_tag_and_maxn(fields).maxn]

\* Sproto
Sproto(types_list, types_by_name, protocols, protocols_by_name, protocols_by_tag) ==
    [types_list |-> types_list, types_by_name |-> types_by_name,
     protocols |-> protocols, protocols_by_name |-> protocols_by_name,
     protocols_by_tag |-> protocols_by_tag]

ParseOk(sproto) == [st |-> "ok", sproto |-> sproto]
ParseErr(e) == [st |-> e, sproto |-> Sproto(<<>>, EmptyMap, <<>>, EmptyMap, EmptyMap)]

\* a < b for strings (byte-wise, as String orders)
RECURSIVE StrLess(_, _)
StrLess(a, b) ==
    IF b = <<>> THEN FALSE
    ELSE IF a = <<>> THEN TRUE
    ELSE IF a[1] # b[1] THEN a[1] < b[1]
    ELSE StrLess(Tail(a), Tail(b))

\* the names in descending order, which Vec::sort does not give
RECURSIVE DescendingNames(_)
DescendingNames(names) ==
    IF names = {} THEN <<>>
    ELSE LET most == CHOOSE n \in names : \A m \in names \ {n} : StrLess(m, n)
         IN  <<most>> \o DescendingNames(names \ {most})

\* Vec::sort of a set of distinct strings
RECURSIVE SortedNames(_)
SortedNames(names) ==
    IF names = {} THEN <<>>
    ELSE LET least == CHOOSE n \in names : \A m \in names \ {n} : StrLess(n, m)
         IN  <<least>> \o SortedNames(names \ {least})

\* sort_by_key(|f| f.tag), a stable sort: x goes after the elements of the
\* sorted sequence whose tag is not above its own
RECURSIVE InsertByTag(_, _)
InsertByTag(sorted, x) ==
    IF sorted = <<>> THEN <<x>>
    ELSE IF sorted[Len(sorted)].tag <= x.tag THEN Append(sorted, x)
    ELSE Append(InsertByTag(SubSeq(sorted, 1, Len(sorted) - 1), x), sorted[Len(sorted)])

RECURSIVE SortByTag(_)
SortByTag(seq) ==
    IF seq = <<>> THEN <<>>
    ELSE InsertByTag(SortByTag(SubSeq(seq, 1, Len(seq) - 1)), seq[Len(seq)])

CollectOk(fields, out) == [st |-> "ok", fields |-> fields, out |-> out]
CollectErr(e) == [st |-> e, fields |-> <<>>, out |-> EmptyMap]

RECURSIVE collect_type(_, _, _)
RECURSIVE collect_members(_, _, _, _, _)

\* the `for member in &ast_type.members` loop of collect_type
collect_members(full_name, members, i, fields, out) ==
    IF i > Len(members) THEN CollectOk(fields, out)
    ELSE LET f == members[i]
             Nested(r) == IF r.st # "ok" THEN r
                          ELSE collect_members(full_name, members, i + 1, fields, r.out)
         IN  IF f.kind = "field"
             THEN IF \E k \in 1..Len(fields) : fields[k].tag = f.tag
                  THEN CollectErr("DuplicateTag")
                  ELSE IF \E k \in 1..Len(fields) : fields[k].name = f.name
                  THEN CollectErr("DuplicateField")
                  ELSE collect_members(full_name, members, i + 1,
                           Append(fields, RawField(f.name, f.tag, f.is_array,
                                                   f.type_name, f.extra)),
                           out)
             ELSE Nested(collect_type(full_name, f, out))

collect_type(parent, ast_type, out) ==
    LET full_name == IF parent = <<>> THEN ast_type.name
                     ELSE parent \o DotStr \o ast_type.name
        Done(r) == IF r.st # "ok" THEN r
                   ELSE CollectOk(<<>>, Insert(r.out, full_name, SortByTag(r.fields)))
    IN  IF full_name \in DOMAIN out THEN CollectErr("DuplicateType")
        ELSE Done(collect_members(full_name, ast_type.members, 1, <<>>, out))

\* str::rfind('.'): the 1-based position of the last dot, 0 when there is none
RECURSIVE RFindDot(_, _)
RFindDot(str, i) ==
    IF i = 0 THEN 0 ELSE IF <<str[i]>> = DotStr THEN i ELSE RFindDot(str, i - 1)

\* the loop of resolve_field_type that walks up the parent chain
RECURSIVE resolve_up(_, _, _)
resolve_up(prefix, type_name, types_by_name) ==
    LET candidate == prefix \o DotStr \o type_name
        pos == RFindDot(prefix, Len(prefix))
    IN  IF candidate \in DOMAIN types_by_name THEN Some(types_by_name[candidate])
        ELSE IF pos = 0 THEN None
        ELSE resolve_up(SubSeq(prefix, 1, pos - 1), type_name, types_by_name)

\* Ok(FieldType) as Some(ft), Err(UndefinedType) as None
resolve_field_type(parent_type, type_name, types_by_name) ==
    CASE type_name = StrInteger -> Some(TInteger)
      [] type_name = StrBoolean -> Some(TBoolean)
      [] type_name = StrString -> Some(TString)
      [] type_name = StrBinary -> Some(TBinary)
      [] type_name = StrDouble -> Some(TDouble)
      [] OTHER ->
            LET full_name == parent_type \o DotStr \o type_name
                Found(up) ==
                    IF IsSome(up) THEN Some(TStruct(Unwrap(up)))
                    ELSE IF type_name \in DOMAIN types_by_name
                    THEN Some(TStruct(types_by_name[type_name]))
                    ELSE None
            IN  IF full_name \in DOMAIN types_by_name
                THEN Some(TStruct(types_by_name[full_name]))
                ELSE Found(resolve_up(parent_type, type_name, types_by_name))

\* the type a protocol names for its request or response (`which`): the name
\* given, or the inline struct collected as <protocol>.<which>
ProtoTypeOk(name, out) == [st |-> "ok", name |-> name, out |-> out]

proto_type_name(p_name, which, ptype, raw_types) ==
    LET Collected(r) == IF r.st # "ok" THEN [st |-> r.st, name |-> None, out |-> EmptyMap]
                        ELSE ProtoTypeOk(Some(p_name \o DotStr \o which), r.out)
    IN  CASE ptype.kind = "name" -> ProtoTypeOk(Some(ptype.name), raw_types)
          [] ptype.kind = "inline" ->
                Collected(collect_type(p_name, AstType(which, ptype.members), raw_types))
          [] OTHER -> ProtoTypeOk(None, raw_types)

ItemsOk(raw_types, raw_protocols) ==
    [st |-> "ok", raw_types |-> raw_types, raw_protocols |-> raw_protocols]
ItemsErr(e) == [st |-> e, raw_types |-> EmptyMap, raw_protocols |-> EmptyMap]

\* phase 1 of build_schema: the `for item in &items` loop
RECURSIVE collect_items(_, _, _, _)
collect_items(ast_items, i, raw_types, raw_protocols) ==
    IF i > Len(ast_items) THEN ItemsOk(raw_types, raw_protocols)
    ELSE LET item == ast_items[i]
             Type(r) == IF r.st # "ok" THEN ItemsErr(r.st)
                        ELSE collect_items(ast_items, i + 1, r.out, raw_protocols)
             Resp(req, resp) ==
                 IF resp.st # "ok" THEN ItemsErr(resp.st)
                 ELSE collect_items(ast_items, i + 1, resp.out,
                          Insert(raw_protocols, item.name,
                                 RawProtocol(item.name, item.tag % 65536,
                                             req.name, resp.name)))
             Req(req) ==
                 IF req.st # "ok" THEN ItemsErr(req.st)
                 ELSE Resp(req, proto_type_name(item.name, StrResponse, item.response,
                                                req.out))
         IN  IF item.kind = "type" THEN Type(collect_type(<<>>, item, raw_types))
             ELSE IF item.name \in DOMAIN raw_protocols THEN ItemsErr("DuplicateType")
             ELSE Req(proto_type_name(item.name, StrRequest, item.request, raw_types))

\* the 0-based position of x in seq
IndexOf(seq, x) == (CHOOSE k \in 1..Len(seq) : seq[k] = x) - 1

\* str::parse::<u32> of a string of decimal digits; -1 stands for Err
RECURSIVE ParseU32(_, _)
ParseU32(str, acc) ==
    IF str = <<>> THEN acc
    ELSE IF str[1] < 48 \/ str[1] > 57 THEN -1
    ELSE ParseU32(Tail(str), acc * 10 + (str[1] - 48))

RECURSIVE Pow10(_)
Pow10(n) == IF n = 0 THEN 1 ELSE 10 * Pow10(n - 1)

\* the `if let Some(extra)` block of build_schema for one field:
\* decimal_precision, key_tag and is_map, or the error
ExtraOk(decimal_precision, key_tag, is_map) ==
    [st |-> "ok", decimal_precision |-> decimal_precision,
     key_tag |-> key_tag, is_map |-> is_map]
ExtraErr(e) == [st |-> e, decimal_precision |-> 0, key_tag |-> -1, is_map |-> FALSE]

field_extra(rf, field_type, raw_types, sorted_type_names) ==
    IF ~IsSome(rf.extra) THEN ExtraOk(0, -1, FALSE)
    ELSE LET extra == Unwrap(rf.extra)
             n == IF extra = <<>> THEN -1 ELSE ParseU32(extra, 0)
             sub_fields == raw_types[sorted_type_names[field_type[2] + 1]]
         IN  IF rf.type_name = StrInteger /\ ~rf.is_array
             THEN IF n < 0 THEN ExtraErr("Syntax")
                  ELSE IF n > 9 THEN ExtraErr("overflow")
                  ELSE ExtraOk(Pow10(n), -1, FALSE)
             ELSE IF ~rf.is_array THEN ExtraOk(0, -1, FALSE)
             ELSE IF extra = <<>>
             THEN IF ~IsStructType(field_type) THEN ExtraOk(0, -1, TRUE)
                  ELSE IF Len(sub_fields) # 2 THEN ExtraErr("InvalidMapKey")
                  ELSE ExtraOk(0, sub_fields[1].tag, TRUE)
             ELSE IF ~IsStructType(field_type) THEN ExtraOk(0, -1, FALSE)
                  ELSE IF \E k \in 1..Len(sub_fields) : sub_fields[k].name = extra
                  THEN ExtraOk(0,
                               sub_fields[CHOOSE k \in 1..Len(sub_fields) :
                                              sub_fields[k].name = extra].tag,
                               FALSE)
                  ELSE ExtraErr("InvalidMapKey")

FieldsOk(fields) == [st |-> "ok", fields |-> fields]
FieldsErr(e) == [st |-> e, fields |-> <<>>]

\* the `for rf in raw_fields` loop of build_schema
RECURSIVE build_fields(_, _, _, _, _, _, _)
build_fields(type_name, raw_fields, i, fields, types_by_name, raw_types, sorted_type_names) ==
    IF i > Len(raw_fields) THEN FieldsOk(fields)
    ELSE LET rf == raw_fields[i]
             Push(field_type, x) ==
                 IF x.st # "ok" THEN FieldsErr(x.st)
                 ELSE build_fields(type_name, raw_fields, i + 1,
                          Append(fields,
                                 FieldWithKey(rf.name, rf.tag % 65536, field_type,
                                              rf.is_array, x.key_tag, x.is_map,
                                              x.decimal_precision)),
                          types_by_name, raw_types, sorted_type_names)
             Resolved(ft) ==
                 IF ~IsSome(ft) THEN FieldsErr("UndefinedType")
                 ELSE Push(Unwrap(ft),
                           field_extra(rf, Unwrap(ft), raw_types, sorted_type_names))
         IN  Resolved(resolve_field_type(type_name, rf.type_name, types_by_name))

TypesOk(types_list) == [st |-> "ok", types_list |-> types_list]
TypesErr(e) == [st |-> e, types_list |-> <<>>]

\* phase 3 of build_schema: the `for type_name in &sorted_type_names` loop
RECURSIVE build_types(_, _, _, _, _)
build_types(sorted_type_names, i, types_list, types_by_name, raw_types) ==
    IF i > Len(sorted_type_names) THEN TypesOk(types_list)
    ELSE LET type_name == sorted_type_names[i]
             Built(r) ==
                 IF r.st # "ok" THEN TypesErr(r.st)
                 ELSE build_types(sorted_type_names, i + 1,
                          Append(types_list, BuiltType(type_name, SortByTag(r.fields))),
                          types_by_name, raw_types)
         IN  Built(build_fields(type_name, raw_types[type_name], 1, <<>>,
                                types_by_name, raw_types, sorted_type_names))

\* proto_list.sort_by_key(|p| p.tag) of the values of a HashMap, which come in
\* any order: protocols of one tag may end up either way round
RECURSIVE SortedProtocols(_)
SortedProtocols(protos) ==
    IF protos = {} THEN <<>>
    ELSE LET least == CHOOSE q \in protos : \A r \in protos : q.tag <= r.tag
         IN  <<least>> \o SortedProtocols(protos \ {least})

\* Option<String> to Option<usize> through types_by_name; Err is "undefined"
TypeIndexOf(name, types_by_name) ==
    IF ~IsSome(name) THEN [st |-> "ok", idx |-> None]
    ELSE IF Unwrap(name) \in DOMAIN types_by_name
    THEN [st |-> "ok", idx |-> Some(types_by_name[Unwrap(name)])]
    ELSE [st |-> "UndefinedType", idx |-> None]

\* phase 4 of build_schema
build_protocols(proto_list, types_by_name) ==
    IF \E i \in 2..Len(proto_list) : proto_list[i].tag = proto_list[i - 1].tag
    THEN [st |-> "DuplicateProtocolTag", protocols |-> <<>>]
    ELSE IF \E i \in 1..Len(proto_list) :
               \/ TypeIndexOf(proto_list[i].request, types_by_name).st # "ok"
               \/ TypeIndexOf(proto_list[i].response, types_by_name).st # "ok"
    THEN [st |-> "UndefinedType", protocols |-> <<>>]
    ELSE [st |-> "ok",
          protocols |->
              [i \in 1..Len(proto_list) |->
                  Protocol(proto_list[i].name, proto_list[i].tag,
                           TypeIndexOf(proto_list[i].request, types_by_name).idx,
                           TypeIndexOf(proto_list[i].response, types_by_name).idx)]]

build_schema(ast_items) ==
    LET Phase4(types_list, types_by_name, ps) ==
            IF ps.st # "ok" THEN ParseErr(ps.st)
            ELSE ParseOk(Sproto(types_list, types_by_name, ps.protocols,
                                [n \in {ps.protocols[i].name : i \in 1..Len(ps.protocols)} |->
                                    IndexOf([i \in 1..Len(ps.protocols) |->
                                                ps.protocols[i].name], n)],
                                [t \in {ps.protocols[i].tag : i \in 1..Len(ps.protocols)} |->
                                    IndexOf([i \in 1..Len(ps.protocols) |->
                                                ps.protocols[i].tag], t)]))
        Phase3(raw, types_by_name, ts) ==
            IF ts.st # "ok" THEN ParseErr(ts.st)
            ELSE Phase4(ts.types_list, types_by_name,
                        build_protocols(
                            SortedProtocols({raw.raw_protocols[n] :
                                                n \in DOMAIN raw.raw_protocols}),
                            types_by_name))
        Phase2(raw, sorted_type_names) ==
            Phase3(raw,
                   [n \in DOMAIN raw.raw_types |-> IndexOf(sorted_type_names, n)],
                   build_types(sorted_type_names, 1, <<>>,
                               [n \in DOMAIN raw.raw_types |->
                                   IndexOf(sorted_type_names, n)],
                               raw.raw_types))
        Phase1(raw) ==
            IF raw.st # "ok" THEN ParseErr(raw.st)
            ELSE Phase2(raw, SortedNames(DOMAIN raw.raw_types))
    IN  Phase1(collect_items(ast_items, 1, EmptyMap, EmptyMap))

-----------------------------------------------------------------------------
(* src/binary_schema.rs *)

\* Result of the decode helpers: st is "ok", "Truncated", "InvalidData" or
\* "panic" (a slice past the end of the buffer)
BinOk(val) == [st |-> "ok", val |-> val]
BinErr(e) == [st |-> e, val |-> <<>>]

\* one entry of DecodedFields: (tag, Some(inline value), &[]) or (tag, None, data)
DecodedField(tag, inline, data) == [tag |-> tag, inline |-> inline, data |-> data]

\* the `for i in 0..fn_count` loop of decode_struct_fields
RECURSIVE decode_struct_loop(_, _, _, _, _, _)
decode_struct_loop(data, fn_count, i, tag0, data_offset, results) ==
    IF i >= fn_count THEN BinOk(results)
    ELSE LET sz == Len(data)
             value == read_u16_le(SliceFrom(data, SIZEOF_HEADER + i * SIZEOF_FIELD))
             tag == tag0 + 1
             inline_val == value \div 2 - 1
             dsz == read_u32_le(SliceFrom(data, data_offset))
         IN  IF value % 2 # 0
             THEN decode_struct_loop(data, fn_count, i + 1, tag + value \div 2,
                                     data_offset, results)
             ELSE IF inline_val >= 0
             THEN decode_struct_loop(data, fn_count, i + 1, tag, data_offset,
                      Append(results, DecodedField(tag % 65536, Some(inline_val), <<>>)))
             ELSE IF data_offset + SIZEOF_LENGTH > sz THEN BinErr("Truncated")
             ELSE IF data_offset + SIZEOF_LENGTH + dsz > sz THEN BinErr("Truncated")
             ELSE decode_struct_loop(data, fn_count, i + 1, tag,
                      data_offset + SIZEOF_LENGTH + dsz,
                      Append(results,
                             DecodedField(tag % 65536, None,
                                          Slice(data, data_offset + SIZEOF_LENGTH,
                                                data_offset + SIZEOF_LENGTH + dsz))))

decode_struct_fields(data) ==
    IF Len(data) < SIZEOF_HEADER THEN BinErr("Truncated")
    ELSE LET fn_count == read_u16_le(data)
             field_end == SIZEOF_HEADER + fn_count * SIZEOF_FIELD
         IN  IF Len(data) < field_end THEN BinErr("Truncated")
             ELSE decode_struct_loop(data, fn_count, 0, -1, field_end, <<>>)

decode_string(data) == IF IsUtf8(data, 1) THEN BinOk(data) ELSE BinErr("InvalidData")

BinRawType(name, fields) == [name |-> name, fields |-> fields]

BinRawField(name, builtin, type_index, tag, array, key, map) ==
    [name |-> name, builtin |-> builtin, type_index |-> type_index, tag |-> tag,
     array |-> array, key |-> key, map |-> map]

BinRawProtocol(name, tag, req, resp) ==
    [name |-> name, tag |-> tag, request |-> req, response |-> resp]

\* inline_val.map(|v| v != 0).unwrap_or(false)
InlineFlag(inline) == IsSome(inline) /\ Unwrap(inline) # 0

\* inline_val.unwrap_or(0) as u16
InlineOrZero(inline) == IF IsSome(inline) THEN Unwrap(inline) ELSE 0

\* the `for (ftag, inline_val, field_data) in &entries` loop of
\* decode_single_field, rf being the RawField so far
RECURSIVE single_field_loop(_, _, _)
single_field_loop(entries, i, rf) ==
    IF i > Len(entries) THEN BinOk(rf)
    ELSE LET e == entries[i]
             Named(str) == IF str.st # "ok" THEN str
                           ELSE single_field_loop(entries, i + 1,
                                                  [rf EXCEPT !.name = str.val])
         IN  CASE e.tag = 0 -> Named(decode_string(e.data))
               [] e.tag = 1 ->
                    single_field_loop(entries, i + 1, [rf EXCEPT !.builtin = e.inline])
               [] e.tag = 2 ->
                    single_field_loop(entries, i + 1, [rf EXCEPT !.type_index = e.inline])
               [] e.tag = 3 ->
                    single_field_loop(entries, i + 1,
                                      [rf EXCEPT !.tag = InlineOrZero(e.inline)])
               [] e.tag = 4 ->
                    single_field_loop(entries, i + 1,
                                      [rf EXCEPT !.array = InlineFlag(e.inline)])
               [] e.tag = 5 ->
                    single_field_loop(entries, i + 1, [rf EXCEPT !.key = e.inline])
               [] e.tag = 6 ->
                    single_field_loop(entries, i + 1,
                                      [rf EXCEPT !.map = InlineFlag(e.inline)])
               [] OTHER -> single_field_loop(entries, i + 1, rf)

decode_single_field(data) ==
    LET Entries(r) ==
            IF r.st # "ok" THEN r
            ELSE single_field_loop(r.val, 1,
                                   BinRawField(<<>>, None, None, 0, FALSE, None, FALSE))
    IN  Entries(decode_struct_fields(data))

RECURSIVE single_protocol_loop(_, _, _)
single_protocol_loop(entries, i, rp) ==
    IF i > Len(entries) THEN BinOk(rp)
    ELSE LET e == entries[i]
             Named(str) == IF str.st # "ok" THEN str
                           ELSE single_protocol_loop(entries, i + 1,
                                                     [rp EXCEPT !.name = str.val])
         IN  CASE e.tag = 0 -> Named(decode_string(e.data))
               [] e.tag = 1 ->
                    single_protocol_loop(entries, i + 1,
                                         [rp EXCEPT !.tag = InlineOrZero(e.inline)])
               [] e.tag = 2 ->
                    single_protocol_loop(entries, i + 1, [rp EXCEPT !.request = e.inline])
               [] e.tag = 3 ->
                    single_protocol_loop(entries, i + 1, [rp EXCEPT !.response = e.inline])
               [] OTHER -> single_protocol_loop(entries, i + 1, rp)

decode_single_protocol(data) ==
    LET Entries(r) ==
            IF r.st # "ok" THEN r
            ELSE single_protocol_loop(r.val, 1, BinRawProtocol(<<>>, 0, None, None))
    IN  Entries(decode_struct_fields(data))

RECURSIVE decode_field_array(_, _, _)
\* the `while offset < data.len()` loop of decode_field_array
decode_field_array(data, offset, fields) ==
    IF offset >= Len(data) THEN BinOk(fields)
    ELSE IF offset + SIZEOF_LENGTH > Len(data) THEN BinErr("Truncated")
    ELSE LET elem_sz == read_u32_le(SliceFrom(data, offset))
             Push(r) == IF r.st # "ok" THEN r
                        ELSE decode_field_array(data, offset + SIZEOF_LENGTH + elem_sz,
                                                Append(fields, r.val))
         IN  IF offset + SIZEOF_LENGTH + elem_sz > Len(data) THEN BinErr("panic")
             ELSE Push(decode_single_field(
                          Slice(data, offset + SIZEOF_LENGTH,
                                offset + SIZEOF_LENGTH + elem_sz)))

\* the loop of decode_single_type over the entries of the type
RECURSIVE single_type_loop(_, _, _)
single_type_loop(entries, i, rt) ==
    IF i > Len(entries) THEN BinOk(rt)
    ELSE LET e == entries[i]
             Named(str) == IF str.st # "ok" THEN str
                           ELSE single_type_loop(entries, i + 1,
                                                 [rt EXCEPT !.name = str.val])
             Fields(fs) == IF fs.st # "ok" THEN fs
                           ELSE single_type_loop(entries, i + 1,
                                                 [rt EXCEPT !.fields = fs.val])
         IN  CASE e.tag = 0 -> Named(decode_string(e.data))
               [] e.tag = 1 -> Fields(decode_field_array(e.data, 0, <<>>))
               [] OTHER -> single_type_loop(entries, i + 1, rt)

decode_single_type(data) ==
    LET Entries(r) == IF r.st # "ok" THEN r
                      ELSE single_type_loop(r.val, 1, BinRawType(<<>>, <<>>))
    IN  Entries(decode_struct_fields(data))

RECURSIVE decode_type_array(_, _, _)
decode_type_array(data, offset, types) ==
    IF offset >= Len(data) THEN BinOk(types)
    ELSE IF offset + SIZEOF_LENGTH > Len(data) THEN BinErr("Truncated")
    ELSE LET elem_sz == read_u32_le(SliceFrom(data, offset))
             Push(r) == IF r.st # "ok" THEN r
                        ELSE decode_type_array(data, offset + SIZEOF_LENGTH + elem_sz,
                                               Append(types, r.val))
         IN  IF offset + SIZEOF_LENGTH + elem_sz > Len(data) THEN BinErr("panic")
             ELSE Push(decode_single_type(
                          Slice(data, offset + SIZEOF_LENGTH,
                                offset + SIZEOF_LENGTH + elem_sz)))

RECURSIVE decode_protocol_array(_, _, _)
decode_protocol_array(data, offset, protocols) ==
    IF offset >= Len(data) THEN BinOk(protocols)
    ELSE IF offset + SIZEOF_LENGTH > Len(data) THEN BinErr("Truncated")
    ELSE LET elem_sz == read_u32_le(SliceFrom(data, offset))
             Push(r) == IF r.st # "ok" THEN r
                        ELSE decode_protocol_array(data, offset + SIZEOF_LENGTH + elem_sz,
                                                   Append(protocols, r.val))
         IN  IF offset + SIZEOF_LENGTH + elem_sz > Len(data) THEN BinErr("panic")
             ELSE Push(decode_single_protocol(
                          Slice(data, offset + SIZEOF_LENGTH,
                                offset + SIZEOF_LENGTH + elem_sz)))

LoadOk(sproto) == [st |-> "ok", sproto |-> sproto]
LoadErr(e) == [st |-> e, sproto |-> Sproto(<<>>, EmptyMap, <<>>, EmptyMap, EmptyMap)]

\* the field type build_sproto gives a raw field: Some(ft), or None for
\* InvalidData (builtin above 3, type index out of range, no type at all)
bin_field_type(rf, type_n) ==
    IF IsSome(rf.builtin)
    THEN CASE Unwrap(rf.builtin) = 0 -> Some(TInteger)
           [] Unwrap(rf.builtin) = 1 -> Some(TBoolean)
           [] Unwrap(rf.builtin) = 2 ->
                IF rf.type_index = Some(1) THEN Some(TBinary) ELSE Some(TString)
           [] Unwrap(rf.builtin) = 3 -> Some(TDouble)
           [] OTHER -> None
    ELSE IF IsSome(rf.type_index)
    THEN IF Unwrap(rf.type_index) >= type_n THEN None
         ELSE Some(TStruct(Unwrap(rf.type_index)))
    ELSE None

\* calc_pow(10, p): 10^p fits a u32 for p below 10; from p = 10 on
\* u32::pow overflows, which aborts in a build with overflow checks and
\* wraps in one without, and the model writes -1 for the result
RECURSIVE calc_pow(_, _)
calc_pow(base, n) ==
    IF n = 0 THEN 1 ELSE IF n >= 10 THEN -1 ELSE base * calc_pow(base, n - 1)

\* the `for rf in &rt.fields` loop of build_sproto
RECURSIVE bin_fields(_, _, _, _)
bin_fields(raw_fields, i, fields, type_n) ==
    IF i > Len(raw_fields) THEN FieldsOk(fields)
    ELSE LET rf == raw_fields[i]
             decimal_precision ==
                 IF rf.builtin = Some(0) /\ IsSome(rf.type_index)
                 THEN calc_pow(10, Unwrap(rf.type_index)) ELSE 0
             Push(ft) ==
                 IF ~IsSome(ft) THEN FieldsErr("InvalidData")
                 ELSE bin_fields(raw_fields, i + 1,
                          Append(fields,
                                 FieldWithKey(rf.name, rf.tag, Unwrap(ft), rf.array,
                                              IF IsSome(rf.key) THEN Unwrap(rf.key) ELSE -1,
                                              rf.map, decimal_precision)),
                          type_n)
         IN  Push(bin_field_type(rf, type_n))

\* the `for (idx, rt) in raw_types.iter().enumerate()` loop of build_sproto
RECURSIVE bin_types(_, _, _)
bin_types(raw_types, i, types_list) ==
    IF i > Len(raw_types) THEN TypesOk(types_list)
    ELSE LET Built(r) ==
                 IF r.st # "ok" THEN TypesErr(r.st)
                 ELSE bin_types(raw_types, i + 1,
                          Append(types_list,
                                 BuiltType(raw_types[i].name, SortByTag(r.fields))))
         IN  Built(bin_fields(raw_types[i].fields, 1, <<>>, Len(raw_types)))

\* a HashMap filled by inserting key(seq[i]) -> i - 1 for i = 1, 2, ...: a
\* later entry replaces an earlier one of the same key
LastIndex(keys) ==
    [k \in {keys[i] : i \in 1..Len(keys)} |->
        (CHOOSE i \in 1..Len(keys) :
            keys[i] = k /\ \A j \in (i + 1)..Len(keys) : keys[j] # k) - 1]

\* Option<u16> type index of a protocol: in range or absent
IndexInRange(idx, type_n) == ~IsSome(idx) \/ Unwrap(idx) < type_n

build_sproto(raw_types, raw_protocols) ==
    LET type_n == Len(raw_types)
        Protocols(ts) ==
            IF ts.st # "ok" THEN LoadErr(ts.st)
            ELSE IF \E i \in 1..Len(raw_protocols) :
                       \/ ~IndexInRange(raw_protocols[i].request, type_n)
                       \/ ~IndexInRange(raw_protocols[i].response, type_n)
            THEN LoadErr("InvalidData")
            ELSE LoadOk(Sproto(ts.types_list,
                               LastIndex([i \in 1..Len(raw_types) |-> raw_types[i].name]),
                               [i \in 1..Len(raw_protocols) |->
                                   Protocol(raw_protocols[i].name, raw_protocols[i].tag,
                                            raw_protocols[i].request,
                                            raw_protocols[i].response)],
                               LastIndex([i \in 1..Len(raw_protocols) |->
                                             raw_protocols[i].name]),
                               LastIndex([i \in 1..Len(raw_protocols) |->
                                             raw_protocols[i].tag])))
    IN  Protocols(bin_types(raw_types, 1, <<>>))

load_binary(data) ==
    LET sz == Len(data)
        fn_count == read_u16_le(data)
        field_part_end == SIZEOF_HEADER + fn_count * SIZEOF_FIELD
        type_sz == read_u32_le(SliceFrom(data, field_part_end))
        proto_offset == field_part_end + SIZEOF_LENGTH + type_sz
        proto_sz == read_u32_le(SliceFrom(data, proto_offset))
        Build(raw_types, raw_protocols) ==
            IF raw_protocols.st # "ok" THEN LoadErr(raw_protocols.st)
            ELSE build_sproto(raw_types.val, raw_protocols.val)
        Types(raw_types) ==
            IF raw_types.st # "ok" THEN LoadErr(raw_types.st)
            ELSE IF fn_count # 2 THEN Build(raw_types, BinOk(<<>>))
            ELSE IF proto_offset + SIZEOF_LENGTH > sz THEN LoadErr("Truncated")
            ELSE IF proto_offset + SIZEOF_LENGTH + proto_sz > sz THEN LoadErr("panic")
            ELSE Build(raw_types,
                       decode_protocol_array(
                           Slice(data, proto_offset + SIZEOF_LENGTH,
                                 proto_offset + SIZEOF_LENGTH + proto_sz), 0, <<>>))
    IN  IF sz < SIZEOF_HEADER THEN LoadErr("Truncated")
        ELSE IF fn_count = 0 \/ fn_count > 2 THEN LoadErr("InvalidData")
        ELSE IF sz < field_part_end THEN LoadErr("Truncated")
        ELSE IF \E i \in 0..(fn_count - 1) :
                   read_u16_le(SliceFrom(data, SIZEOF_HEADER + i * SIZEOF_FIELD)) # 0
        THEN LoadErr("InvalidData")
        ELSE IF field_part_end + SIZEOF_LENGTH > sz THEN LoadErr("Truncated")
        ELSE IF field_part_end + SIZEOF_LENGTH + type_sz > sz THEN LoadErr("panic")
        ELSE Types(decode_type_array(
                       Slice(data, field_part_end + SIZEOF_LENGTH,
                             field_part_end + SIZEOF_LENGTH + type_sz), 0, <<>>))

-----------------------------------------------------------------------------
(* The parser scenario: a schema text of a few definitions is parsed, then  *)
(* parsed again with the definitions in another order.                      *)

\* type names A, B, C, D
NmA == <<65>>
NmB == <<66>>
NmC == <<67>>
NmD == <<68>>
\* field names a, b, k, m, p, q, r, s, v, x, y, z
FnA == <<97>>
FnB == <<98>>
FnK == <<107>>
FnM == <<109>>
FnP == <<112>>
FnQ == <<113>>
FnR == <<114>>
FnS == <<115>>
FnV == <<118>>
FnX == <<120>>
FnY == <<121>>
FnZ == <<122>>
\* protocol names foo, bar, baz
NmFoo == <<102, 111, 111>>
NmBar == <<98, 97, 114>>
NmBaz == <<98, 97, 122>>

\* the definitions a text is made of:
\*   .A { x 0 : integer   y 2 : B }
\*   .A { x 0 : integer   x 1 : string }
\*   .A { x 1 : integer   y 1 : string }
\*   .A { x 0 : integer(2)   y 65536 : integer }
\*   .B { k 3 : integer   v 1 : string }
\*   .C { .B { z 0 : boolean }   b 0 : B   a 1 : *A(x)   m 4 : *A() }
\*   .D { p 1 : integer   q 65537 : integer   r 0 : integer   s 3 : integer }
\*   foo 1 { request A   response B }
\*   bar 2 { request { x 0 : integer }   response nil }
\*   baz 65537 { }
ItemPalette ==
    << AstType(NmA, <<AstField(FnX, 0, FALSE, StrInteger, None),
                      AstField(FnY, 2, FALSE, NmB, None)>>),
       AstType(NmA, <<AstField(FnX, 0, FALSE, StrInteger, None),
                      AstField(FnX, 1, FALSE, StrString, None)>>),
       AstType(NmA, <<AstField(FnX, 1, FALSE, StrInteger, None),
                      AstField(FnY, 1, FALSE, StrString, None)>>),
       AstType(NmA, <<AstField(FnX, 0, FALSE, StrInteger, Some(<<50>>)),
                      AstField(FnY, 65536, FALSE, StrInteger, None)>>),
       AstType(NmB, <<AstField(FnK, 3, FALSE, StrInteger, None),
                      AstField(FnV, 1, FALSE, StrString, None)>>),
       AstType(NmC, <<AstType(NmB, <<AstField(FnZ, 0, FALSE, StrBoolean, None)>>),
                      AstField(FnB, 0, FALSE, NmB, None),
                      AstField(FnA, 1, TRUE, NmA, Some(FnX)),
                      AstField(FnM, 4, TRUE, NmA, Some(<<>>))>>),
       AstType(NmD, <<AstField(FnP, 1, FALSE, StrInteger, None),
                      AstField(FnQ, 65537, FALSE, StrInteger, None),
                      AstField(FnR, 0, FALSE, StrInteger, None),
                      AstField(FnS, 3, FALSE, StrInteger, None)>>),
       AstProtocol(NmFoo, 1, TypeName(NmA), TypeName(NmB)),
       AstProtocol(NmBar, 2,
                   InlineStruct(<<AstField(FnX, 0, FALSE, StrInteger, None)>>), Nil),
       AstProtocol(NmBaz, 65537, NoProtoType, NoProtoType) >>

\* a text holds at most this many definitions
MaxItems == 3

\* the orders n definitions can be put in
Orders(n) == {f \in [1..n -> 1..n] : \A i, j \in 1..n : i # j => f[i] # f[j]}

ParseInit ==
    /\ \E n \in 0..MaxItems : \E f \in [1..n -> 1..Len(ItemPalette)] :
          items = [k \in 1..n |-> ItemPalette[f[k]]]
    /\ parsed = [st |-> "none"]
    /\ reparsed = [st |-> "none"]
    /\ bundle = <<>>
    /\ loaded = [st |-> "none"]
    /\ spc = "text"

Parse ==
    /\ spc = "text"
    /\ parsed' = build_schema(items)
    /\ spc' = "parsed"
    /\ UNCHANGED <<items, reparsed, bundle, loaded, schemaOthers>>

\* the definitions are put in the order f and parsed again
ParseAgain(f) ==
    /\ spc = "parsed"
    /\ reparsed' = [order |-> f,
                    result |-> build_schema([k \in 1..Len(items) |-> items[f[k]]])]
    /\ spc' = "reparsed"
    /\ UNCHANGED <<items, parsed, bundle, loaded, schemaOthers>>

ParseNext ==
    \/ Parse
    \/ \E f \in Orders(Len(items)) : ParseAgain(f)

-----------------------------------------------------------------------------
(* The loader scenario: a schema bundle, as a schema compiler writes it, is *)
(* loaded.                                                                  *)

\* the schema of a bundle (the module comment of binary_schema.rs): types
\* type.field, type, protocol and group
MetaSchema ==
    [types_list |-> <<
        SprotoType("type.field", <<Field("name", 0, TString, FALSE, 0),
                                   Field("buildin", 1, TInteger, FALSE, 0),
                                   Field("type", 2, TInteger, FALSE, 0),
                                   Field("tag", 3, TInteger, FALSE, 0),
                                   Field("array", 4, TBoolean, FALSE, 0),
                                   Field("key", 5, TInteger, FALSE, 0),
                                   Field("map", 6, TBoolean, FALSE, 0)>>),
        SprotoType("type", <<Field("name", 0, TString, FALSE, 0),
                             Field("fields", 1, TStruct(0), TRUE, 0)>>),
        SprotoType("protocol", <<Field("name", 0, TString, FALSE, 0),
                                 Field("tag", 1, TInteger, FALSE, 0),
                                 Field("request", 2, TInteger, FALSE, 0),
                                 Field("response", 3, TInteger, FALSE, 0),
                                 Field("confirm", 4, TBoolean, FALSE, 0)>>),
        SprotoType("group", <<Field("type", 0, TStruct(1), TRUE, 0),
                              Field("protocol", 1, TStruct(2), TRUE, 0)>>)
     >>,
     protocols |-> <<>>]

\* map with key -> Integer(n) added when the option holds n
InsertOpt(map, key, opt) ==
    IF IsSome(opt) THEN Insert(map, key, Integer(I64(Unwrap(opt)))) ELSE map

\* map with key -> Boolean(TRUE) added when the flag is set
InsertFlag(map, key, flag) == IF flag THEN Insert(map, key, Boolean(TRUE)) ELSE map

\* the messages of a bundle for a field, a type and a protocol
FieldMessage(rf) ==
    Struct(InsertFlag(InsertOpt(InsertFlag(
               Insert(InsertOpt(InsertOpt(Insert(EmptyMap, "name", Str(rf.name)),
                                          "buildin", rf.builtin),
                                "type", rf.type_index),
                      "tag", Integer(I64(rf.tag))),
               "array", rf.array), "key", rf.key), "map", rf.map))

TypeMessage(rt) ==
    Struct(Insert(Insert(EmptyMap, "name", Str(rt.name)),
                  "fields", Array([i \in 1..Len(rt.fields) |-> FieldMessage(rt.fields[i])])))

ProtocolMessage(rp) ==
    Struct(InsertOpt(InsertOpt(
               Insert(Insert(EmptyMap, "name", Str(rp.name)), "tag", Integer(I64(rp.tag))),
               "request", rp.request), "response", rp.response))

\* the bundle of these types and protocols; without protocols the group has
\* one field only
BundleOf(raw_types, raw_protocols) ==
    encode(MetaSchema, TypeAt(MetaSchema, 3),
           Struct(IF raw_protocols = <<>>
                  THEN Insert(EmptyMap, "type",
                              Array([i \in 1..Len(raw_types) |-> TypeMessage(raw_types[i])]))
                  ELSE Insert(Insert(EmptyMap, "type",
                                     Array([i \in 1..Len(raw_types) |->
                                               TypeMessage(raw_types[i])])),
                              "protocol",
                              Array([i \in 1..Len(raw_protocols) |->
                                        ProtocolMessage(raw_protocols[i])])))).bytes

\* the types a bundle is made of:
\*   A { x 0 : integer   y 1 : binary }
\*   A { x 1 : integer   y 1 : boolean }          two fields of tag 1
\*   B { s 3 : *<type 0>   k 0 : integer(2) }     fields not in tag order
\*   B { s 0 : <type 5> }                         type index out of range
\*   C { z 2 : ? }                                neither buildin nor type
BundleTypes ==
    << BinRawType(NmA, <<BinRawField(FnX, Some(0), None, 0, FALSE, None, FALSE),
                         BinRawField(FnY, Some(2), Some(1), 1, FALSE, None, FALSE)>>),
       BinRawType(NmA, <<BinRawField(FnX, Some(0), None, 1, FALSE, None, FALSE),
                         BinRawField(FnY, Some(1), None, 1, FALSE, None, FALSE)>>),
       BinRawType(NmB, <<BinRawField(FnS, None, Some(0), 3, TRUE, Some(0), FALSE),
                         BinRawField(FnK, Some(0), Some(2), 0, FALSE, None, FALSE)>>),
       BinRawType(NmB, <<BinRawField(FnS, None, Some(5), 0, FALSE, None, FALSE)>>),
       BinRawType(NmC, <<BinRawField(FnZ, None, None, 2, FALSE, None, FALSE)>>) >>

\* the protocols a bundle is made of: foo 1 (request 0, response 1), bar 1
\* (request 0), foo 2, baz 3 (request 7)
BundleProtocols ==
    << BinRawProtocol(NmFoo, 1, Some(0), Some(1)),
       BinRawProtocol(NmBar, 1, Some(0), None),
       BinRawProtocol(NmFoo, 2, None, None),
       BinRawProtocol(NmBaz, 3, Some(7), None) >>

\* a bundle holds at most this many types and this many protocols
MaxBundle == 2

LoadInit ==
    /\ items = <<>>
    /\ parsed = [st |-> "none"]
    /\ reparsed = [st |-> "none"]
    /\ \E tn \in 0..MaxBundle, pn \in 0..MaxBundle :
          \E f \in [1..tn -> 1..Len(BundleTypes)],
             g \in [1..pn -> 1..Len(BundleProtocols)] :
                bundle = BundleOf([k \in 1..tn |-> BundleTypes[f[k]]],
                                  [k \in 1..pn |-> BundleProtocols[g[k]]])
    /\ loaded = [st |-> "none"]
    /\ spc = "bundle"

Load ==
    /\ spc = "bundle"
    /\ loaded' = load_binary(bundle)
    /\ spc' = "loaded"
    /\ UNCHANGED <<items, parsed, reparsed, bundle, schemaOthers>>

LoadNext == Load

-----------------------------------------------------------------------------
(* The built-schema scenario: a value is encoded by a type of a schema that *)
(* the parser or the loader has built.                                      *)

\* the schema in use
BuiltSchema == IF parsed.st = "ok" THEN parsed.sproto ELSE loaded.sproto

\* a value for a field of the given type
SampleValue(field) ==
    LET one == CASE field.field_type = TInteger -> Integer(Int13)
                 [] field.field_type = TBoolean -> Boolean(TRUE)
                 [] field.field_type = TString -> Str(StrAe)
                 [] field.field_type = TBinary -> Binary(StrAe)
                 [] field.field_type = TDouble -> Double(Dbl1p5)
                 [] OTHER -> new_struct
    IN  IF field.is_array THEN Array(<<one>>) ELSE one

\* the struct that has the fields of sproto_type at the positions `present`
SampleStruct(sproto_type, present) ==
    Struct([nm \in {sproto_type.fields[k].name : k \in present} |->
               SampleValue(SelectSeq(sproto_type.fields, LAMBDA x : x.name = nm)[1])])

\* a text of the scenario has at most this many definitions
MaxDefs == 2

BuiltInit ==
    /\ \/ /\ \E n \in 1..MaxDefs : \E f \in [1..n -> 1..Len(ItemPalette)] :
                items = [k \in 1..n |-> ItemPalette[f[k]]]
          /\ parsed = build_schema(items)
          /\ parsed.st = "ok"
          /\ bundle = <<>>
          /\ loaded = [st |-> "none"]
       \/ /\ items = <<>>
          /\ parsed = [st |-> "none"]
          /\ \E tn \in 1..MaxBundle : \E g \in [1..tn -> 1..Len(BundleTypes)] :
                bundle = BundleOf([k \in 1..tn |-> BundleTypes[g[k]]], <<>>)
          /\ loaded = load_binary(bundle)
          /\ loaded.st = "ok"
    /\ reparsed = [st |-> "none"]
    /\ spc = "built"
    /\ ctype \in 0..(Len(BuiltSchema.types_list) - 1)
    /\ \E present \in SUBSET (1..Len(TypeAt(BuiltSchema, ctype).fields)) :
          cvalue = SampleStruct(TypeAt(BuiltSchema, ctype), present)
    /\ wire = NoEnc
    /\ damage = "none"
    /\ dtype = -1
    /\ decoded = NoDec
    /\ reencoded = NoEnc
    /\ cpc = "built"

EncodeBuilt ==
    /\ cpc = "built"
    /\ wire' = encode(BuiltSchema, TypeAt(BuiltSchema, ctype), cvalue)
    /\ cpc' = "written"
    /\ UNCHANGED <<ctype, cvalue, damage, dtype, decoded, reencoded, codecOthers>>

BuiltNext == EncodeBuilt

-----------------------------------------------------------------------------
(* The descriptor scenario: decode is handed a message whose descriptors    *)
(* another writer chose.                                                    *)

\* the descriptors of the scenario: a skip of 32767 further tags (0xFFFF), a
\* skip of no further tag, the inline value 13, a block of the data part
SomeDescriptors == <<65535, 1, 28, 0>>

\* the block that goes with a descriptor 0: the four bytes of 13
SomeBlock == write_u32_le(4) \o write_u32_le(13)

\* the message with these descriptors
MessageOf(descs) ==
    write_u16_le(Len(descs))
        \o Concat([i \in 1..Len(descs) |-> write_u16_le(descs[i])])
        \o Concat([i \in 1..Len(descs) |-> IF descs[i] = 0 THEN SomeBlock ELSE <<>>])

\* a message of the scenario has at most this many descriptors
MaxDescs == 4

DescriptorInit ==
    /\ ctype = -1
    /\ cvalue = NoValue
    /\ \E n \in 0..MaxDescs : \E f \in [1..n -> 1..Len(SomeDescriptors)] :
          wire = EncOk(MessageOf([k \in 1..n |-> SomeDescriptors[f[k]]]))
    /\ damage = "foreign"
    /\ dtype \in TypeIndexes(CodecSchema)
    /\ decoded = NoDec
    /\ reencoded = NoEnc
    /\ cpc = "arrived"

DecodeArrived ==
    /\ cpc = "arrived"
    /\ decoded' = decode(CodecSchema, TypeAt(CodecSchema, dtype), wire.bytes)
    /\ cpc' = "read"
    /\ UNCHANGED <<ctype, cvalue, wire, damage, dtype, reencoded, codecOthers>>

DescriptorNext == DecodeArrived

-----------------------------------------------------------------------------
(* The integer scenario: integers at the edges of the inline, 32-bit and    *)
(* 64-bit ranges are encoded, alone and in arrays, and decoded again.  The  *)
(* schema, as parser::parse builds it from                                  *)
(*   .Ints { a 0 : integer  b 1 : integer  list 2 : *integer }              *)

IntSchema ==
    [types_list |-> <<
        SprotoType("Ints", <<Field("a", 0, TInteger, FALSE, 0),
                             Field("b", 1, TInteger, FALSE, 0),
                             Field("list", 2, TInteger, TRUE, 0)>>)
     >>,
     protocols |-> <<>>]

\* 0, 1, 0x7FFE, 0x7FFF, 0x8000, 2^31 - 1, 2^31, 2^32 - 1, 2^32, 2^63 - 1,
\* -1, -2^31, -2^31 - 1, -2^63
IntCases ==
    << I64(0), I64(1), Int7FFE, Int7FFF, I64(32768),
       <<255, 255, 255, 127, 0, 0, 0, 0>>, Int2p31,
       <<255, 255, 255, 255, 0, 0, 0, 0>>, <<0, 0, 0, 0, 1, 0, 0, 0>>,
       <<255, 255, 255, 255, 255, 255, 255, 127>>,
       IntMinus1, <<0, 0, 0, 128, 255, 255, 255, 255>>,
       <<255, 255, 255, 127, 255, 255, 255, 255>>, IntMin >>

\* the elements of the arrays: 13, -1, 2^30, 2^31 - 1, 2^31, -2^31 - 1, 2^40
ElemCases ==
    << Int13, IntMinus1, <<0, 0, 0, 64, 0, 0, 0, 0>>,
       <<255, 255, 255, 127, 0, 0, 0, 0>>, Int2p31,
       <<255, 255, 255, 127, 255, 255, 255, 255>>, <<0, 0, 0, 0, 0, 1, 0, 0>> >>

\* an array of the scenario has at most this many elements
MaxElems == 3

IntsInit ==
    /\ ctype = 0
    /\ \/ \E i, j \in 0..Len(IntCases) :
             cvalue = Struct((IF i > 0 THEN "a" :> Integer(IntCases[i]) ELSE EmptyMap)
                             @@ (IF j > 0 THEN "b" :> Integer(IntCases[j]) ELSE EmptyMap))
       \/ \E n \in 0..MaxElems : \E f \in [1..n -> 1..Len(ElemCases)] :
             cvalue = Struct("list" :> Array([k \in 1..n |-> Integer(ElemCases[f[k]])]))
    /\ wire = NoEnc
    /\ damage = "none"
    /\ dtype = -1
    /\ decoded = NoDec
    /\ reencoded = NoEnc
    /\ cpc = "ints"

EncodeInts ==
    /\ cpc = "ints"
    /\ wire' = encode(IntSchema, TypeAt(IntSchema, ctype), cvalue)
    /\ cpc' = "intswritten"
    /\ UNCHANGED <<ctype, cvalue, damage, dtype, decoded, reencoded, codecOthers>>

DecodeInts ==
    /\ cpc = "intswritten"
    /\ wire.st = "ok"
    /\ dtype' = ctype
    /\ decoded' = decode(IntSchema, TypeAt(IntSchema, ctype), wire.bytes)
    /\ cpc' = "intsread"
    /\ UNCHANGED <<ctype, cvalue, wire, damage, reencoded, codecOthers>>

IntsNext == EncodeInts \/ DecodeInts

(* The pending scenario: a host with several sessions pending attaches a    *)
(* sender that makes a request, or a responder writes a response, and the   *)
(* host dispatches the packet.                                              *)

\* the sessions the host may have pending, and one it never has
PendingIds == {I64(1), I64(2)}
StraySession == I64(3)

\* the session tables of the scenario: some of PendingIds, each registered
\* with no response type, echo's or ping's
PendingTables ==
    UNION {[d -> {None, Some(1), Some(4)}] : d \in SUBSET PendingIds}

PendingInit ==
    /\ hsessions \in PendingTables
    /\ ssessions = EmptyMap
    /\ sent = NoSent
    /\ reqpkt = RpcErr("none")
    /\ incoming = NoDispatch
    /\ answer = NoAnswer
    /\ nresponds = 0
    /\ resppkt = RpcErr("none")
    /\ lastd = NoLast
    /\ ndispatches = 0
    /\ registered = FALSE
    /\ rpc = "pending"

\* sender = host.attach(remote); sender.request(name, message, session, ud)
PendingRequest(name, message, session, ud) ==
    /\ rpc = "pending"
    /\ LET Done(r) ==
               /\ reqpkt' = r.result
               /\ ssessions' = r.sessions
       IN  Done(request(attach(ClientHost, RpcSchema), name, message, session, ud))
    /\ hsessions' = ClientHost.sessions
    /\ sent' = [name |-> name, message |-> message, session |-> session, ud |-> ud]
    /\ rpc' = "pendingsent"
    /\ UNCHANGED <<incoming, answer, nresponds, resppkt, lastd, ndispatches, registered,
                   rpcOthers>>

\* responder.respond(message, ud) for a responder of the given session
PendingRespond(response_type_idx, session, message, ud) ==
    /\ rpc = "pending"
    /\ resppkt' = respond(RpcSchema,
                          Responder(ClientHost.package_type_idx, response_type_idx, session),
                          message, ud)
    /\ hsessions' = ClientHost.sessions
    /\ answer' = [message |-> message, ud |-> ud]
    /\ rpc' = "pendinganswered"
    /\ UNCHANGED <<ssessions, sent, reqpkt, incoming, nresponds, lastd, ndispatches,
                   registered, rpcOthers>>

\* host.dispatch(packet) of the packet just written
PendingDispatch ==
    /\ rpc \in {"pendingsent", "pendinganswered"}
    /\ LET packet == IF rpc = "pendingsent" THEN reqpkt ELSE resppkt
           Done(r) ==
               /\ incoming' = r.result
               /\ hsessions' = r.sessions
       IN  /\ packet.st = "ok"
           /\ Done(dispatch(ClientHost, packet.bytes))
    /\ rpc' = "pendingtaken"
    /\ UNCHANGED <<ssessions, sent, reqpkt, answer, nresponds, resppkt, lastd,
                   ndispatches, registered, rpcOthers>>

PendingNext ==
    \/ \E name \in ProtocolNames, session \in {None} \cup {Some(s) : s \in PendingIds},
          ud \in UserData :
         \E message \in RpcMessages(Unwrap(get_protocol(RpcSchema, name)).request) :
            PendingRequest(name, message, session, ud)
    \/ \E t \in {None, Some(1), Some(4)}, session \in PendingIds \cup {StraySession},
          ud \in UserData :
         \E message \in RpcMessages(t) : PendingRespond(t, session, message, ud)
    \/ PendingDispatch

-----------------------------------------------------------------------------

(* The header type scenario: a sender is asked for a protocol by name, or a *)
(* host dispatches a request packet whose header carries some 64-bit value  *)
(* of `type`.                                                               *)

\* the names a caller may ask for: the protocols of the schema and two others
AskedNames == ProtocolNames \cup {"nonexistent", ""}

\* the values of `type`: the tags of the schema (1, 2, 3), values next to
\* them, values above 65535 and negative values
TypeValues ==
    { I64(0), I64(1), I64(2), I64(3), I64(4), I64(65535), I64(65536), I64(65537),
      I64(65538), <<2, 0, 0, 0, 1, 0, 0, 0>>, <<1, 0, 255, 255, 255, 255, 255, 255>>,
      IntMinus1, IntMin }

\* the packet a peer writes for a request of that type
TypedPacket(type, session, ud, content) ==
    Combine(encode(RpcSchema, TypeAt(RpcSchema, ClientHost.package_type_idx),
                   HeaderValue(Some(type), session, ud)),
            EncOk(content))

TypedInit ==
    /\ hsessions = EmptyMap
    /\ ssessions = EmptyMap
    /\ sent = NoSent
    /\ reqpkt = RpcErr("none")
    /\ incoming = NoDispatch
    /\ answer = NoAnswer
    /\ nresponds = 0
    /\ resppkt = RpcErr("none")
    /\ lastd = NoLast
    /\ ndispatches = 0
    /\ registered = FALSE
    /\ rpc = "typing"

\* sender.request(name, message, session, ud)
AskByName(name, message, session, ud) ==
    /\ rpc = "typing"
    /\ LET Done(r) ==
               /\ reqpkt' = r.result
               /\ ssessions' = r.sessions
       IN  Done(request(ClientSender, name, message, session, ud))
    /\ sent' = [name |-> name, message |-> message, session |-> session, ud |-> ud]
    /\ rpc' = "named"
    /\ UNCHANGED <<hsessions, incoming, answer, nresponds, resppkt, lastd, ndispatches,
                   registered, rpcOthers>>

\* a peer sends the packet
OfferTyped(type, session, ud, content) ==
    /\ rpc = "typing"
    /\ reqpkt' = TypedPacket(type, session, ud, content)
    /\ rpc' = "typeoffered"
    /\ UNCHANGED <<hsessions, ssessions, sent, incoming, answer, nresponds, resppkt,
                   lastd, ndispatches, registered, rpcOthers>>

\* the host calls dispatch(reqpkt)
TakeTyped ==
    /\ rpc = "typeoffered"
    /\ reqpkt.st = "ok"
    /\ LET Done(r) ==
               /\ incoming' = r.result
               /\ hsessions' = r.sessions
       IN  Done(dispatch(ClientHost, reqpkt.bytes))
    /\ rpc' = "typed"
    /\ UNCHANGED <<ssessions, sent, reqpkt, answer, nresponds, resppkt, lastd,
                   ndispatches, registered, rpcOthers>>

TypedNext ==
    \/ \E name \in AskedNames, session \in {None, Some(I64(1))}, ud \in UserData :
         AskByName(name, new_struct, session, ud)
    \/ \E type \in TypeValues, session \in {None, Some(I64(1))}, ud \in UserData,
          c \in 1..Len(ForeignContents) :
         OfferTyped(type, session, ud, ForeignContents[c])
    \/ TakeTyped

-----------------------------------------------------------------------------

(* The accepted scenario: whatever encode accepts for the fields of Shape   *)
(* is handed to decode.                                                     *)

\* the values of the shape scenario and integers of every width
AcceptedValues ==
    AnyValues \o << Boolean(FALSE), Integer(I64(0)), Integer(I64(1)), Integer(I64(2)),
                    Integer(Int7FFE), Integer(Int7FFF), Integer(Int2p31),
                    Integer(IntMinus1), Integer(IntMin),
                    Array(<<Boolean(TRUE)>>), Array(<<Integer(Int2p31), Integer(Int13)>>) >>

\* the value handed to encode gives any value to one or to two fields of Shape
AcceptedInit ==
    /\ ctype = 1
    /\ \E k \in 1..Len(AcceptedValues), i \in 1..Len(ShapeType.fields) :
          \/ cvalue = Struct(Insert(EmptyMap, ShapeType.fields[i].name, AcceptedValues[k]))
          \/ \E j \in 1..Len(ShapeType.fields), m \in 1..Len(MoreValues) :
                cvalue = Struct(Insert(Insert(EmptyMap, ShapeType.fields[i].name,
                                              AcceptedValues[k]),
                                       ShapeType.fields[j].name, MoreValues[m]))
    /\ wire = NoEnc
    /\ damage = "none"
    /\ dtype = -1
    /\ decoded = NoDec
    /\ reencoded = NoEnc
    /\ cpc = "accepting"

EncodeAccepted ==
    /\ cpc = "accepting"
    /\ wire' = encode(ShapeSchema, ShapeType, cvalue)
    /\ cpc' = "accepted"
    /\ UNCHANGED <<ctype, cvalue, damage, dtype, decoded, reencoded, codecOthers>>

DecodeAccepted ==
    /\ cpc = "accepted"
    /\ wire.st = "ok"
    /\ dtype' = ctype
    /\ decoded' = decode(ShapeSchema, ShapeType, wire.bytes)
    /\ cpc' = "acceptedread"
    /\ UNCHANGED <<ctype, cvalue, wire, damage, reencoded, codecOthers>>

AcceptedNext == EncodeAccepted \/ DecodeAccepted

-----------------------------------------------------------------------------

(* The damaged bundle scenario: load_binary is handed a bundle that lost    *)
(* its tail or has one byte raised.                                         *)

\* how many types and protocols the bundle had before the damage
MaxDamaged == 1

\* buf with the byte at position k raised by one
RaiseByte(buf, k) == [buf EXCEPT ![k] = (buf[k] + 1) % 256]

DamagedInit ==
    /\ items = <<>>
    /\ parsed = [st |-> "none"]
    /\ reparsed = [st |-> "none"]
    /\ \E tn \in 0..MaxDamaged, pn \in 0..MaxDamaged :
          \E f \in [1..tn -> 1..Len(BundleTypes)],
             g \in [1..pn -> 1..Len(BundleProtocols)] :
             LET whole == BundleOf([k \in 1..tn |-> BundleTypes[f[k]]],
                                   [k \in 1..pn |-> BundleProtocols[g[k]]])
             IN  \/ \E n \in 0..Len(whole) : bundle = SubSeq(whole, 1, n)
                 \/ \E k \in 1..Len(whole) : bundle = RaiseByte(whole, k)
    /\ loaded = [st |-> "none"]
    /\ spc = "damaged"

\* the outcomes of load_binary: where calc_pow overflowed, the abort of a
\* build with overflow checks and the schema of a build without them
LoadOutcomes(r) ==
    IF /\ r.st = "ok"
       /\ \E t \in 1..Len(r.sproto.types_list) :
             \E i \in 1..Len(r.sproto.types_list[t].fields) :
                r.sproto.types_list[t].fields[i].decimal_precision < 0
    THEN {LoadErr("panic"), r}
    ELSE {r}

LoadDamaged ==
    /\ spc = "damaged"
    /\ loaded' \in LoadOutcomes(load_binary(bundle))
    /\ spc' = "damagedloaded"
    /\ UNCHANGED <<items, parsed, reparsed, bundle, schemaOthers>>

DamagedNext == LoadDamaged

-----------------------------------------------------------------------------

-----------------------------------------------------------------------------
(* The specifications: one scenario runs, the others stay idle *)

\* no schema scenario is running
SchemaIdle ==
    /\ items = <<>>
    /\ parsed = [st |-> "none"]
    /\ reparsed = [st |-> "none"]
    /\ bundle = <<>>
    /\ loaded = [st |-> "none"]
    /\ spc = "idle"

InitCodec == CodecInit /\ PackIdle /\ RpcIdle /\ SchemaIdle

SpecCodec == InitCodec /\ [][CodecNext]_vars

\* only the transport scenario runs
InitShape == ShapeInit /\ PackIdle /\ RpcIdle /\ SchemaIdle

SpecShape == InitShape /\ [][ShapeNext]_vars

InitPack == PackInit /\ CodecIdle /\ RpcIdle /\ SchemaIdle

SpecPack == InitPack /\ [][PackNext]_vars

\* only the rpc scenario runs
InitUnpack == UnpackInit /\ CodecIdle /\ RpcIdle /\ SchemaIdle

SpecUnpack == InitUnpack /\ [][UnpackNext]_vars

InitParse == ParseInit /\ CodecIdle /\ PackIdle /\ RpcIdle

SpecParse == InitParse /\ [][ParseNext]_vars

InitPacket == PacketInit /\ CodecIdle /\ PackIdle /\ SchemaIdle

SpecPacket == InitPacket /\ [][PacketNext]_vars

InitLoad == LoadInit /\ CodecIdle /\ PackIdle /\ RpcIdle

SpecLoad == InitLoad /\ [][LoadNext]_vars

InitBuilt == BuiltInit /\ PackIdle /\ RpcIdle

SpecBuilt == InitBuilt /\ [][BuiltNext]_vars

InitDescriptor == DescriptorInit /\ PackIdle /\ RpcIdle /\ SchemaIdle

SpecDescriptor == InitDescriptor /\ [][DescriptorNext]_vars

InitInts == IntsInit /\ PackIdle /\ RpcIdle /\ SchemaIdle

SpecInts == InitInts /\ [][IntsNext]_vars

InitPending == PendingInit /\ CodecIdle /\ PackIdle /\ SchemaIdle
SpecPending == InitPending /\ [][PendingNext]_vars

InitTyped == TypedInit /\ CodecIdle /\ PackIdle /\ SchemaIdle
SpecTyped == InitTyped /\ [][TypedNext]_vars

InitAccepted == AcceptedInit /\ PackIdle /\ RpcIdle /\ SchemaIdle
SpecAccepted == InitAccepted /\ [][AcceptedNext]_vars

InitDamaged == DamagedInit /\ CodecIdle /\ PackIdle /\ RpcIdle
SpecDamaged == InitDamaged /\ [][DamagedNext]_vars

InitRpc == RpcInit /\ CodecIdle /\ PackIdle /\ SchemaIdle

SpecRpc == InitRpc /\ [][RpcNext]_vars

-----------------------------------------------------------------------------
(* Claims about the codec *)

Decoded == cpc \in {"decoded", "reencoded"}

\* C1: for any type T and any value v valid for T, decode(S, T, encode(S, T, v))
\* succeeds and equals v (so fields absent from v are absent from the result).
C1_RoundTrip ==
    (Decoded /\ damage = "none" /\ dtype = ctype)
        => (decoded.st = "ok" /\ decoded.val = cvalue)

\* the names of the fields of a type
FieldNames(sproto_type) == {sproto_type.fields[i].name : i \in 1..Len(sproto_type.fields)}

\* every field of `small` is a field of `big`: same name, tag, type and arity
Extends(big, small) ==
    \A i \in 1..Len(small.fields) :
        \E j \in 1..Len(big.fields) : big.fields[j] = small.fields[i]

Restrict(map, names) == [n \in (DOMAIN map) \cap names |-> map[n]]

\* C8: bytes encoded against a type with extra fields decode, against the type
\* without them, to exactly the known fields: the unknown descriptors emit
\* nothing, do not fail, and leave every known field with its value.
C8_UnknownFieldsSkipped ==
    (/\ Decoded /\ damage = "none"
     /\ Extends(TypeAt(CodecSchema, ctype), TypeAt(CodecSchema, dtype)))
        => /\ decoded.st = "ok"
           /\ decoded.val = Struct(Restrict(cvalue.val,
                                            FieldNames(TypeAt(CodecSchema, dtype))))

\* C9: for every byte sequence b on which decode(S, T, b) succeeds,
\* encode(S, T, decode(S, T, b)) equals b.
C9_CanonicalReencoding ==
    cpc = "reencoded" => reencoded = EncOk(wire.bytes)

\* C10: a message cut short at any position decodes to a Truncated error whose
\* `have` is the number of bytes that arrived and whose `need` is a number of
\* bytes of the whole message above it, and decode never aborts, whatever the
\* bytes (in particular on an array element whose length prefix exceeds the
\* bytes left in the array region).
C10_TruncatedNotAbort ==
    (cpc = "decoded" /\ dtype = ctype)
        => /\ decoded.st # "panic"
           /\ damage = "cut" =>
                /\ decoded.st = "Truncated"
                /\ decoded.have = Len(wire.bytes)
                /\ decoded.need > decoded.have
                /\ decoded.need <=
                     Len(encode(CodecSchema, TypeAt(CodecSchema, ctype), cvalue).bytes)

\* the variant of SprotoValue a scalar field of this type declares
DeclaredKind(ft) ==
    CASE ft = TInteger -> "integer"
      [] ft = TBoolean -> "boolean"
      [] ft = TDouble -> "double"
      [] ft = TString -> "string"
      [] ft = TBinary -> "binary"
      [] IsStructType(ft) -> "struct"

\* the value handed to encode for this field contradicts its declaration
FieldContradicts(field, v) ==
    IF field.is_array THEN v.kind # "array"
    ELSE /\ v.kind # DeclaredKind(field.field_type)
         /\ ~(field.field_type = TInteger /\ field.decimal_precision > 0
               /\ v.kind = "double")

ShapeContradicts(sproto_type, value) ==
    \/ value.kind # "struct"
    \/ /\ value.kind = "struct"
       /\ \E i \in 1..Len(sproto_type.fields) :
             /\ sproto_type.fields[i].name \in DOMAIN value.val
             /\ FieldContradicts(sproto_type.fields[i],
                                 value.val[sproto_type.fields[i].name])

\* C12: encode returns TypeMismatch, and no bytes, whenever the shape of a
\* supplied value contradicts the schema: a top-level value that is not a
\* struct, a non-list for an array field, or for a scalar field a value of
\* another variant than the declared type, the only exception being a Double
\* for an integer(n) field.
C12_TypeMismatch ==
    cpc = "shaped" /\ ShapeContradicts(ShapeType, cvalue)
        => wire = EncErr("TypeMismatch")

\* the value handed to encode gives only fpn a value, of this variant
OnlyFpn(kind) ==
    /\ cvalue.kind = "struct"
    /\ DOMAIN cvalue.val = {"fpn"}
    /\ cvalue.val["fpn"].kind = kind

\* C13: for a non-array integer field with decimal_precision p > 0, encode
\* accepts a Double value d and writes the integer round(d*p) (1.82 with
\* p = 100 is written inline as 182, descriptor 366), and writes a supplied
\* Integer value unchanged.
C13_DecimalPrecision ==
    cpc = "shaped" =>
        /\ OnlyFpn("integer") /\ cvalue.val["fpn"].val = I64(182)
              => wire = EncOk(<<2, 0, 11, 0, 110, 1>>)
        /\ OnlyFpn("double") /\ cvalue.val["fpn"].val = Dbl1p82
              => wire = EncOk(<<2, 0, 11, 0, 110, 1>>)
        /\ OnlyFpn("double")
              => /\ wire.st = "ok"
                 /\ wire = encode(ShapeSchema, ShapeType,
                                  Struct(Insert(EmptyMap, "fpn",
                                      Integer(f64_scaled_as_i64(cvalue.val["fpn"].val, 100)))))

-----------------------------------------------------------------------------
(* Claims about the transport *)

\* b extended with zero bytes to the next multiple of 8
Padded(b) == b \o Zeros((8 - (Len(b) % 8)) % 8)

\* C2: for any byte sequence b, unpack(pack(b)) succeeds and equals b extended
\* with zero bytes to the next multiple of 8, so its first len(b) bytes are b;
\* pack of the empty input is empty.
C2_PackUnpack ==
    /\ ppc \in {"packed", "restored"} /\ psrc = <<>> => packed = <<>>
    /\ ppc = "restored" =>
         /\ restored.st = "ok"
         /\ restored.bytes = Padded(psrc)
         /\ SubSeq(restored.bytes, 1, Len(psrc)) = psrc

\* a buffer not a multiple of 8 long whose run of full words passed 256 words
\* went through pack and unpack
C2_Witness ==
    /\ ppc = "restored"
    /\ Len(psrc) > 256 * 8
    /\ Len(psrc) % 8 # 0
    /\ Len(restored.bytes) > Len(psrc)

\* the number of payload bytes a normal tag announces
PopCount(tag) == Cardinality({k \in 0..7 : (tag \div Pow2(k)) % 2 # 0})

\* src from offset i on is a sequence of complete segments: each 0xFF tag has
\* its count byte and 8*(count+1) payload bytes, each other tag has as many
\* payload bytes as it has bits set
RECURSIVE CompleteSegments(_, _)
CompleteSegments(src, i) ==
    IF i >= Len(src) THEN TRUE
    ELSE IF src[i + 1] = 255
         THEN /\ i + 2 <= Len(src)
              /\ i + 2 + 8 * (src[i + 2] + 1) <= Len(src)
              /\ CompleteSegments(src, i + 2 + 8 * (src[i + 2] + 1))
         ELSE /\ i + 1 + PopCount(src[i + 1]) <= Len(src)
              /\ CompleteSegments(src, i + 1 + PopCount(src[i + 1]))

\* C11: unpack returns InvalidData, and no output, for an input that ends in a
\* 0xFF tag with no count byte, for a 0xFF segment with fewer than 8*(count+1)
\* payload bytes, and for a normal segment with fewer payload bytes than set
\* bits in its tag; on every other input it succeeds and its output length is
\* a multiple of 8.
C11_UnpackInvalid ==
    ppc = "unpacked" =>
        IF CompleteSegments(packed, 0)
        THEN restored.st = "ok" /\ Len(restored.bytes) % 8 = 0
        ELSE restored = UnpackErr

\* unpack refused a buffer whose last segment is a normal one cut short, after
\* a complete first segment
C11_Witness ==
    /\ ppc = "unpacked"
    /\ restored = UnpackErr
    /\ Len(packed) > 2
    /\ packed[1] = 1
    /\ packed[Len(packed)] = 254

-----------------------------------------------------------------------------
(* Claims about the rpc layer *)

\* the protocol the client called
SentProtocol == Unwrap(get_protocol(RpcSchema, sent.name))

\* C3: Host.dispatch of a response packet carrying session s succeeds only if s
\* is in the host's session table and on success removes s: with s registered
\* the dispatch returns Response{session: s}; a second dispatch of the same
\* packet with no registration in between fails with UnknownSession(s); so does
\* the dispatch of a response whose session is not registered.
C3_SessionTable ==
    lastd # NoLast =>
        /\ lastd.result.st = "Response" => lastd.had
        /\ lastd.had => /\ lastd.result.st = "Response"
                        /\ lastd.result.session = Some(lastd.session)
        /\ (lastd.result.st = "Response" /\ ~registered)
               => lastd.session \notin DOMAIN hsessions
        /\ lastd.again => /\ lastd.result.st = "UnknownSession"
                          /\ lastd.result.session = Some(lastd.session)
        /\ ~lastd.had => /\ lastd.result.st = "UnknownSession"
                         /\ lastd.result.session = Some(lastd.session)

\* a registered session was answered and the same packet dispatched again
C3_Witness ==
    /\ lastd.again
    /\ lastd.result.st = "UnknownSession"
    /\ lastd.session = IntMin

\* C4: after Sender.request(_, _, Some(s), _) on a Sender obtained from
\* Host.attach, s is pending at that Host with the protocol's response type, so
\* the first dispatch of the matching response there is accepted as
\* Response{session: s} and leaves s no longer pending.
C4_RequestAwaits ==
    /\ (rpc = "requested" /\ IsSome(sent.session) /\ ~registered)
           => /\ Unwrap(sent.session) \in DOMAIN hsessions
              /\ hsessions[Unwrap(sent.session)] = SentProtocol.response
    /\ ndispatches = 1
           => /\ lastd.result.st = "Response"
              /\ lastd.result.session = sent.session
              /\ lastd.session \notin DOMAIN hsessions

\* C5: a packet built by Sender.request(name, message, session, ud) and
\* dispatched at a host with the same schema yields Request{name, message,
\* responder, ud}: the protocol's name, the message sent (the empty struct when
\* the protocol has no request type), the ud sent, and a responder exactly when
\* a session was supplied.
C5_RequestDispatch ==
    rpc \in {"arrived", "responded"} =>
        /\ incoming.st = "Request"
        /\ incoming.name = sent.name
        /\ incoming.message = Some(IF IsSome(SentProtocol.request)
                                   THEN sent.message ELSE new_struct)
        /\ incoming.ud = sent.ud
        /\ IsSome(incoming.responder) <=> IsSome(sent.session)

\* a request with a message, a session and a ud arrived
C5_Witness ==
    /\ rpc = "arrived"
    /\ sent.name = "echo"
    /\ sent.message # new_struct
    /\ IsSome(sent.session) /\ IsSome(sent.ud)
    /\ IsSome(incoming.responder)

\* the header of a packet
PacketHeader(packet) ==
    decode(RpcSchema, TypeAt(RpcSchema, Host(RpcSchema, "package").package_type_idx),
           unpack(packet).bytes)

\* C6: for every u64 session s, also s >= 2^63, a request sent with session s,
\* answered through the Responder dispatch returned and dispatched at a host
\* where s is registered yields Response{session, message, ud} with session = s,
\* the ud given to respond, and the responded message when the session was
\* registered with a response type; the response packet's header has no `type`.
C6_ResponseRoundTrip ==
    (lastd # NoLast /\ lastd.had) =>
        /\ lastd.result.st = "Response"
        /\ lastd.result.session = sent.session
        /\ lastd.result.ud = lastd.answer.ud
        /\ IsSome(lastd.type) => lastd.result.message = Some(lastd.answer.message)
        /\ PacketHeader(lastd.packet).st = "ok"
        /\ "type" \notin DOMAIN PacketHeader(lastd.packet).val.val

\* the session 2^64 - 1 came back with a message and a ud
C6_Witness ==
    /\ lastd.had
    /\ sent.session = Some(IntMinus1)
    /\ IsSome(lastd.type)
    /\ lastd.answer.message # new_struct
    /\ IsSome(lastd.answer.ud)
    /\ lastd.result.st = "Response"

\* C7: a Responder is consumed once: at most one response packet can be obtained
\* from the Responder of a dispatched request.
C7_ResponderOnce == nresponds <= 1

-----------------------------------------------------------------------------
(* Claims about schemas *)

\* the elements of seq are pairwise distinct
Distinct(seq) == \A i, j \in 1..Len(seq) : i # j => seq[i] # seq[j]

\* the elements of seq are strictly ascending
Ascending(seq) == \A i \in 1..(Len(seq) - 1) : seq[i] < seq[i + 1]

FieldTags(sproto_type) == [i \in 1..Len(sproto_type.fields) |-> sproto_type.fields[i].tag]

FieldNameSeq(sproto_type) ==
    [i \in 1..Len(sproto_type.fields) |-> sproto_type.fields[i].name]

\* the fields a type definition of the text declares, nested types left out
DeclaredFields(ast_type) ==
    SelectSeq(ast_type.members, LAMBDA m : m.kind = "field")

\* the type definitions of the text with their dotted names: the types, the
\* types nested in them, the inline request and response structs
RECURSIVE DeclaredTypes(_, _)
DeclaredTypes(parent, ast_type) ==
    LET full_name == IF parent = <<>> THEN ast_type.name
                     ELSE parent \o DotStr \o ast_type.name
    IN  <<[name |-> full_name, fields |-> DeclaredFields(ast_type)]>>
        \o Concat([i \in 1..Len(ast_type.members) |->
                      IF ast_type.members[i].kind = "type"
                      THEN DeclaredTypes(full_name, ast_type.members[i])
                      ELSE <<>>])

ItemTypes(item) ==
    IF item.kind = "type" THEN DeclaredTypes(<<>>, item)
    ELSE (IF item.request.kind = "inline"
          THEN DeclaredTypes(item.name, AstType(StrRequest, item.request.members))
          ELSE <<>>)
         \o (IF item.response.kind = "inline"
             THEN DeclaredTypes(item.name, AstType(StrResponse, item.response.members))
             ELSE <<>>)

TextTypes(ast_items) == Concat([i \in 1..Len(ast_items) |-> ItemTypes(ast_items[i])])

TextProtocols(ast_items) == SelectSeq(ast_items, LAMBDA it : it.kind = "protocol")

\* the text declares two fields of one type with the same tag or the same
\* name, two types with the same dotted name or two protocols with the same tag
DeclaresDuplicate(ast_items) ==
    \/ \E i \in 1..Len(TextTypes(ast_items)) :
          LET fs == TextTypes(ast_items)[i].fields
          IN  \/ ~Distinct([k \in 1..Len(fs) |-> fs[k].tag])
              \/ ~Distinct([k \in 1..Len(fs) |-> fs[k].name])
    \/ ~Distinct([i \in 1..Len(TextTypes(ast_items)) |-> TextTypes(ast_items)[i].name])
    \/ ~Distinct([i \in 1..Len(TextProtocols(ast_items)) |->
                     TextProtocols(ast_items)[i].tag])

\* C14: every Schema returned by the text parser has, in each type, pairwise
\* distinct field names and field tags that are strictly ascending (pairwise
\* distinct as 16-bit values), and pairwise distinct protocol names and
\* protocol tags; a text that declares two fields of one type with the same
\* tag or the same name, two types with the same dotted name, or two protocols
\* with the same tag is rejected.
C14_ParsedUnique ==
    spc = "parsed" =>
        /\ parsed.st = "ok" =>
              /\ \A i \in 1..Len(parsed.sproto.types_list) :
                    /\ Distinct(FieldNameSeq(parsed.sproto.types_list[i]))
                    /\ Ascending(FieldTags(parsed.sproto.types_list[i]))
              /\ Distinct([i \in 1..Len(parsed.sproto.protocols) |->
                              parsed.sproto.protocols[i].name])
              /\ Distinct([i \in 1..Len(parsed.sproto.protocols) |->
                              parsed.sproto.protocols[i].tag])
        /\ DeclaresDuplicate(items) => parsed.st # "ok"


\* every value of the lookup table is the position of an element of seq whose
\* key (name or tag) is the one it is filed under
PointsAt(table, keys) ==
    \A k \in DOMAIN table :
        /\ table[k] \in 0..(Len(keys) - 1)
        /\ keys[table[k] + 1] = k

\* C15: every Schema returned by load_binary satisfies the schema invariants:
\* each Struct(i) field reference and each protocol request/response index is
\* below the number of types, every entry of types_by_name, protocols_by_name
\* and protocols_by_tag points at the type or protocol that has that name or
\* tag, the fields of each type are sorted by tag with unique tags, and
\* protocol tags and names are unique.
C15_LoadedInvariants ==
    spc = "loaded" /\ loaded.st = "ok" =>
        LET sp == loaded.sproto
            type_n == Len(sp.types_list)
        IN  /\ \A i \in 1..type_n : \A k \in 1..Len(sp.types_list[i].fields) :
                  IsStructType(sp.types_list[i].fields[k].field_type)
                      => sp.types_list[i].fields[k].field_type[2] < type_n
            /\ \A i \in 1..Len(sp.protocols) :
                  /\ IndexInRange(sp.protocols[i].request, type_n)
                  /\ IndexInRange(sp.protocols[i].response, type_n)
            /\ PointsAt(sp.types_by_name, [i \in 1..type_n |-> sp.types_list[i].name])
            /\ PointsAt(sp.protocols_by_name,
                        [i \in 1..Len(sp.protocols) |-> sp.protocols[i].name])
            /\ PointsAt(sp.protocols_by_tag,
                        [i \in 1..Len(sp.protocols) |-> sp.protocols[i].tag])
            /\ \A i \in 1..type_n : Ascending(FieldTags(sp.types_list[i]))
            /\ Distinct([i \in 1..Len(sp.protocols) |-> sp.protocols[i].tag])
            /\ Distinct([i \in 1..Len(sp.protocols) |-> sp.protocols[i].name])


\* the types of the schema the parser or the loader has built
BuiltTypes ==
    (IF parsed.st = "ok" THEN parsed.sproto.types_list ELSE <<>>)
        \o (IF loaded.st = "ok" THEN loaded.sproto.types_list ELSE <<>>)

\* the tags are exactly b, b+1, ..., b+n-1 for their first tag b
Consecutive(tags) == \A i \in 1..Len(tags) : tags[i] = tags[1] + i - 1

\* the number of gap regions: one when the first tag is above 0, one for
\* every consecutive pair of tags that differ by more than 1
GapRegions(tags) ==
    (IF Len(tags) > 0 /\ tags[1] > 0 THEN 1 ELSE 0)
        + Cardinality({i \in 1..(Len(tags) - 1) : tags[i + 1] - tags[i] > 1})

\* C16: for every type built by the parser or the loader, base_tag is the
\* first tag b when the sorted tags are exactly b, b+1, ..., b+n-1 and -1
\* otherwise (also for a type without fields), and maxn is the number of
\* fields plus the number of gap regions.
C16_BaseTagMaxn ==
    \A i \in 1..Len(BuiltTypes) :
        LET t == BuiltTypes[i]
            tags == FieldTags(t)
        IN  /\ t.base_tag = (IF Len(tags) > 0 /\ Consecutive(tags) THEN tags[1] ELSE -1)
            /\ t.maxn = Len(tags) + GapRegions(tags)


\* the elements of a sequence
Elems(seq) == {seq[i] : i \in 1..Len(seq)}

\* the scopes a name used inside the type `parent` is looked up in: the type
\* itself and every type it is nested in
Scopes(parent) ==
    {parent} \cup {SubSeq(parent, 1, i - 1) : i \in {k \in 1..Len(parent) : parent[k] = 46}}

\* the dotted name a type name used inside `parent` stands for: the name in
\* the innermost scope that declares it, the top level last
ResolvedName(parent, type_name, names) ==
    LET hits == {sc \in Scopes(parent) : (sc \o DotStr \o type_name) \in names}
    IN  IF hits # {}
        THEN (CHOOSE sc \in hits : \A r \in hits : Len(r) <= Len(sc)) \o DotStr \o type_name
        ELSE type_name

\* the declaration in the text of field field_name of the type type_name
DeclaredField(ast_items, type_name, field_name) ==
    LET decl == CHOOSE d \in Elems(TextTypes(ast_items)) : d.name = type_name
    IN  CHOOSE m \in Elems(decl.fields) : m.name = field_name

RECURSIVE BlocksExtent(_, _, _, _)
BlocksExtent(buf, fn_count, i, cursor) ==
    IF i >= fn_count THEN cursor
    ELSE IF read_u16_le(SliceFrom(buf, SIZEOF_HEADER + i * SIZEOF_FIELD)) = 0
         THEN BlocksExtent(buf, fn_count, i + 1,
                           cursor + SIZEOF_LENGTH + read_u32_le(SliceFrom(buf, cursor)))
         ELSE BlocksExtent(buf, fn_count, i + 1, cursor)

MessageExtent(buf) ==
    BlocksExtent(buf, read_u16_le(buf), 0, SIZEOF_HEADER + read_u16_le(buf) * SIZEOF_FIELD)

\* the header Host::dispatch decodes from the unpacked packet, and the header
\* it encodes again to find the content
DecodedHeader(host, unpacked) ==
    decode(host.sproto, TypeAt(host.sproto, host.package_type_idx), unpacked)

HeaderBin(host, unpacked) ==
    encode(host.sproto, TypeAt(host.sproto, host.package_type_idx),
           DecodedHeader(host, unpacked).val)

\* C18: in Host.dispatch, for every unpacked packet whose header decodes, the
\* length of the re-encoded header equals the number of bytes the header
\* occupies at the start of the packet, so the content handed to the request
\* or response decoder starts exactly at the first byte after the header, and
\* that offset never exceeds the length of the unpacked packet.
C18_HeaderLength ==
    rpc = "taken" /\ unpack(reqpkt.bytes).st = "ok" =>
        LET unpacked == unpack(reqpkt.bytes).bytes
            host == Host(RpcSchema, "package")
        IN  DecodedHeader(host, unpacked).st = "ok" =>
                /\ HeaderBin(host, unpacked).st = "ok"
                /\ Len(HeaderBin(host, unpacked).bytes) = MessageExtent(unpacked)
                /\ Len(HeaderBin(host, unpacked).bytes) <= Len(unpacked)


\* the positions of the fields of sproto_type that the struct value has
PresentFields(sproto_type, value) ==
    {k \in 1..Len(sproto_type.fields) : sproto_type.fields[k].name \in DOMAIN value.val}

\* C19: for every type whose maxn was computed by the parser or the loader and
\* for every value, the number of descriptors (field descriptors plus skip
\* descriptors) that encode writes never exceeds maxn, so no descriptor is
\* written outside the header pre-allocated as 2 + 2*maxn bytes; this holds
\* also when present fields are separated by absent fields, each of which may
\* cause a skip descriptor.
C19_DescriptorsWithinMaxn ==
    cpc = "written" =>
        /\ wire.st # "panic"
        /\ wire.st = "ok" =>
              /\ read_u16_le(wire.bytes) <= TypeAt(BuiltSchema, ctype).maxn
              /\ SIZEOF_HEADER + SIZEOF_FIELD * read_u16_le(wire.bytes)
                     <= Len(wire.bytes)

\* a value whose present fields are separated by an absent field has been
\* encoded, and a skip descriptor was written for it
C19_Witness ==
    /\ cpc = "written"
    /\ wire.st = "ok"
    /\ LET here == PresentFields(TypeAt(BuiltSchema, ctype), cvalue)
       IN  /\ \E a, c \in here : \E b \in (a + 1)..(c - 1) : b \notin here
           /\ read_u16_le(wire.bytes) > Cardinality(here)


\* the descriptors of the message in buf
DescriptorsOf(buf) ==
    [i \in 1..read_u16_le(buf) |->
        read_u16_le(SliceFrom(buf, SIZEOF_HEADER + (i - 1) * SIZEOF_FIELD))]

\* the descriptor rule of the wire format: the running tag starts at -1 and
\* goes up by one for every descriptor; an odd descriptor v moves it v / 2
\* further and stands for no field; the tags of the others are collected
RECURSIVE RunningTags(_, _, _)
RunningTags(descs, i, tag) ==
    IF i > Len(descs) THEN <<>>
    ELSE IF descs[i] % 2 = 1
         THEN RunningTags(descs, i + 1, tag + 1 + descs[i] \div 2)
         ELSE <<tag + 1>> \o RunningTags(descs, i + 1, tag + 1)

\* the skip descriptors to expect for fields with these tags: 2*(g-1)+1
\* wherever g > 0 tags are missing before a field
RECURSIVE SkipsFor(_, _, _)
SkipsFor(tags, i, last) ==
    IF i > Len(tags) THEN <<>>
    ELSE (IF tags[i] - last - 1 > 0 THEN <<2 * (tags[i] - last - 1 - 1) + 1>> ELSE <<>>)
             \o SkipsFor(tags, i + 1, tags[i])

\* the tags of the fields of sproto_type that the struct value holds, in the
\* order of the type
HeldTags(sproto_type, value) ==
    LET held == SelectSeq(sproto_type.fields, LAMBDA f : f.name \in DOMAIN value.val)
    IN  [i \in 1..Len(held) |-> held[i].tag]

\* C20: for any type with ascending unique 16-bit tags and any value, the
\* descriptors written by encode, read back with the descriptor rule of the
\* wire format, give running tags that are exactly the tags of the encoded
\* fields in ascending order: one skip descriptor of value 2*(g-1)+1 is
\* written before a field exactly when g > 0 tags are missing between it and
\* the previously emitted field (or tag -1), for every gap g that two 16-bit
\* tags allow.
C20_SkipDescriptors ==
    cpc = "encoded" /\ damage = "none" =>
        LET tags == HeldTags(TypeAt(CodecSchema, ctype), cvalue)
            descs == DescriptorsOf(wire.bytes)
        IN  /\ RunningTags(descs, 1, -1) = tags
            /\ SelectSeq(descs, LAMBDA v : v % 2 = 1) = SkipsFor(tags, 1, -1)


\* C21: decode keeps a running tag that starts at -1, grows by 1 for each
\* descriptor and by a further v/2 for an odd descriptor v (0xFFFF adds 32767),
\* and emits a field for a non-skip descriptor only if the type has a field
\* whose tag equals that running tag; a running tag above 65535, reachable with
\* several skip descriptors, matches no field.
C21_RunningTag ==
    cpc = "read" /\ decoded.st = "ok" =>
        LET tags == Elems(RunningTags(DescriptorsOf(wire.bytes), 1, -1))
            sproto_type == TypeAt(CodecSchema, dtype)
        IN  DOMAIN decoded.val.val
                = {sproto_type.fields[k].name :
                      k \in {j \in 1..Len(sproto_type.fields) : sproto_type.fields[j].tag \in tags}}


\* the descriptors of the message in buf that stand for a field
FieldDescriptorsOf(buf) == SelectSeq(DescriptorsOf(buf), LAMBDA v : v % 2 = 0)

\* the blocks of the data part of the message in buf, without their length
\* prefixes: n blocks from cursor on
RECURSIVE BlocksFrom(_, _, _)
BlocksFrom(buf, cursor, n) ==
    IF n = 0 \/ cursor + SIZEOF_LENGTH > Len(buf) THEN <<>>
    ELSE LET sz == read_u32_le(SliceFrom(buf, cursor))
         IN  <<Slice(buf, cursor + SIZEOF_LENGTH, cursor + SIZEOF_LENGTH + sz)>>
                 \o BlocksFrom(buf, cursor + SIZEOF_LENGTH + sz, n - 1)

DataBlocksOf(buf) ==
    BlocksFrom(buf, SIZEOF_HEADER + SIZEOF_FIELD * read_u16_le(buf),
               Len(SelectSeq(FieldDescriptorsOf(buf), LAMBDA v : v = 0)))

\* the block of the k-th field descriptor of the message, <<>> when the
\* descriptor holds the value itself or the data part has no block for it
BlockOfField(buf, k) ==
    LET nth == Len(SelectSeq(SubSeq(FieldDescriptorsOf(buf), 1, k), LAMBDA v : v = 0))
    IN  IF FieldDescriptorsOf(buf)[k] # 0 \/ nth > Len(DataBlocksOf(buf)) THEN <<>>
        ELSE DataBlocksOf(buf)[nth]

\* the 16-bit limb k (0 the lowest) of the 64-bit two's complement number x
Limb(x, k) == x[2 * k + 1] + 256 * x[2 * k + 2]

\* 0 <= x < 0x7FFF: the upper limbs are 0 and the lowest is below 0x7FFF
InInlineRange(x) ==
    Limb(x, 3) = 0 /\ Limb(x, 2) = 0 /\ Limb(x, 1) = 0 /\ Limb(x, 0) < 32767

\* -2^31 <= x < 2^31: the upper limbs repeat the sign bit of limb 1
InInt32Range(x) ==
    \/ Limb(x, 3) = 0 /\ Limb(x, 2) = 0 /\ Limb(x, 1) < 32768
    \/ Limb(x, 3) = 65535 /\ Limb(x, 2) = 65535 /\ Limb(x, 1) >= 32768

\* the names of the integer fields a and b that the value holds, in tag order
HeldInts == SelectSeq(<<"a", "b">>, LAMBDA nm : nm \in DOMAIN cvalue.val)

\* C22: for a non-array integer field with signed 64-bit value x, encode
\* writes the descriptor (x+1)*2 and no data when 0 <= x < 0x7FFF, and
\* otherwise writes descriptor 0 with a data region of 4 bytes when
\* -2^31 <= x < 2^31 and of 8 bytes in every other case; 0x7FFE is inline,
\* 0x7FFF is external, and a negative value is never inline.
C22_IntegerWidth ==
    cpc = "intswritten" /\ "list" \notin DOMAIN cvalue.val =>
        /\ wire.st = "ok"
        /\ Len(FieldDescriptorsOf(wire.bytes)) = Len(HeldInts)
        /\ \A k \in 1..Len(HeldInts) :
              LET x == cvalue.val[HeldInts[k]].val
                  desc == FieldDescriptorsOf(wire.bytes)[k]
                  block == BlockOfField(wire.bytes, k)
              IN  IF InInlineRange(x)
                  THEN desc = (Limb(x, 0) + 1) * 2 /\ block = <<>>
                  ELSE /\ desc = 0
                       /\ block = IF InInt32Range(x) THEN SubSeq(x, 1, 4) ELSE x

\* a = 0x7FFE and b = 0x7FFF have been encoded
C22_Witness ==
    /\ cpc = "intswritten"
    /\ wire.st = "ok"
    /\ DOMAIN cvalue.val = {"a", "b"}
    /\ cvalue.val["a"].val = Int7FFE
    /\ cvalue.val["b"].val = Int7FFF


\* the elements of the array the value holds in `list`
ListElems == [i \in 1..Len(cvalue.val["list"].val) |-> cvalue.val["list"].val[i].val]

ByteAt(buf, idx) == IF idx \in 1..Len(buf) THEN buf[idx] ELSE 0

\* the words the packed buffer buf emits from offset j on, one record a word:
\* whether it lies in a 0xFF segment, its position in the segment, the offset
\* of the segment, its tag byte and the bytes it is written with
RECURSIVE Emitted(_, _)
Emitted(buf, j) ==
    IF j >= Len(buf) THEN <<>>
    ELSE IF buf[j + 1] = 255
         THEN LET n == ByteAt(buf, j + 2) + 1
              IN  [p \in 1..n |->
                      [run |-> TRUE, pos |-> p, seg |-> j, tag |-> 255,
                       bytes |-> [b \in 1..8 |-> ByteAt(buf, j + 2 + 8 * (p - 1) + b)]]]
                  \o Emitted(buf, j + 2 + 8 * n)
         ELSE LET n == PopCount(buf[j + 1])
              IN  <<[run |-> FALSE, pos |-> 0, seg |-> j, tag |-> buf[j + 1],
                     bytes |-> [b \in 1..n |-> ByteAt(buf, j + 1 + b)]]>>
                  \o Emitted(buf, j + 1 + n)

\* word k (from 1) of the input, zero-padded when the input ends inside it
WordOf(src, k) == [b \in 1..8 |-> ByteAt(src, 8 * (k - 1) + b)]

WordCount(src) == (Len(src) + 7) \div 8

NonZeroCount(word) == Cardinality({b \in 1..8 : word[b] # 0})

\* the tag byte of a word: bit b set when byte b is not zero
RECURSIVE TagByte(_, _)
TagByte(word, b) ==
    IF b > 8 THEN 0 ELSE (IF word[b] # 0 THEN Pow2(b - 1) ELSE 0) + TagByte(word, b + 1)

\* word k - 1 was emitted in a run that is still open
InOpenRun(em, k) == k > 1 /\ em[k - 1].run /\ em[k - 1].pos < 256

\* the words em are emitted as C24 says
DenseRule(em) ==
    /\ Len(em) = WordCount(psrc)
    /\ \A k \in 1..Len(em) :
          LET word == WordOf(psrc, k)
              nz == NonZeroCount(word)
          IN  /\ em[k].run = (nz = 8 \/ (nz \in {6, 7} /\ InOpenRun(em, k)))
              /\ ~em[k].run =>
                    /\ em[k].tag = TagByte(word, 1)
                    /\ em[k].bytes = SelectSeq(word, LAMBDA b : b # 0)
              /\ (em[k].run /\ k > 1 /\ ~em[k - 1].run) => em[k].pos = 1

SomeDenseBothWays(em) ==
    /\ Len(em) = WordCount(psrc)
    /\ \E k \in 1..Len(em) : NonZeroCount(WordOf(psrc, k)) \in {6, 7} /\ em[k].run
    /\ \E k \in 1..Len(em) : NonZeroCount(WordOf(psrc, k)) \in {6, 7} /\ ~em[k].run

RunRule(em) ==
    /\ Len(em) = WordCount(psrc)
    /\ \A k \in 1..Len(em) :
          em[k].run =>
              /\ em[k].pos \in 1..256
              /\ em[k].bytes = WordOf(psrc, k)
              /\ IF InOpenRun(em, k)
                 THEN em[k].seg = em[k - 1].seg /\ em[k].pos = em[k - 1].pos + 1
                 ELSE em[k].pos = 1

\* C25: every 0xFF segment in the output of pack carries n words with
\* 1 <= n <= 256, its count byte equals n-1, and it is followed by exactly 8n
\* literal bytes copied from the input (the last word zero-padded when the
\* input ends inside it); more than 256 consecutive dense words are emitted as
\* several segments, the run being closed at 256 words and a new segment
\* started.
C25_RunSegments ==
    ppc \in {"packed", "restored"} =>
        /\ CompleteSegments(packed, 0)
        /\ RunRule(Emitted(packed, 0))

\* a run was closed at 256 words and the next word, the last of the input,
\* started a new segment
RunPassed256(em) ==
    /\ Len(em) = WordCount(psrc)
    /\ \E k \in 1..(Len(em) - 1) : em[k].pos = 256 /\ em[k + 1].run /\ em[k + 1].pos = 1
    /\ em[Len(em)].run

C25_Witness ==
    ppc = "packed" /\ RunPassed256(Emitted(packed, 0))


\* C26: when Host.dispatch returns an error (unpack failure, header decode
\* failure, unknown protocol, response without session, unknown session, or
\* failure to decode the response content), the host's pending-session table
\* is the same as before the call.
C26_ErrorKeepsSessions ==
    [][(rpc = "offered" /\ rpc' = "taken" /\ incoming'.st \notin {"Request", "Response"})
          => hsessions' = hsessions]_vars


\* C27: Host.dispatch of a request packet, Host.attach, Sender.request and
\* Responder.respond leave the host's pending-session table unchanged, and a
\* successful dispatch of a response for session s removes s only: every
\* other pending session stays pending with the response type it was
\* registered with.
C27_SessionFrame ==
    [][/\ rpc = "pending" /\ rpc' \in {"pendingsent", "pendinganswered"} =>
             hsessions' = hsessions
       /\ rpc' = "pendingtaken" /\ rpc # "pendingtaken" /\ incoming'.st = "Request" =>
             hsessions' = hsessions
       /\ rpc' = "pendingtaken" /\ rpc # "pendingtaken" /\ incoming'.st = "Response" =>
             LET s == Unwrap(incoming'.session) IN
             /\ s \in DOMAIN hsessions
             /\ DOMAIN hsessions' = (DOMAIN hsessions) \ {s}
             /\ \A k \in DOMAIN hsessions' : hsessions'[k] = hsessions[k]]_vars

\* a response was dispatched with success and another session is still pending
C27_Witness ==
    /\ rpc = "pendingtaken"
    /\ incoming.st = "Response"
    /\ DOMAIN hsessions # {}
    /\ Unwrap(incoming.session) \notin DOMAIN hsessions


\* the value of `type` in the header of the packet, if the header has one
HeaderType(packed_data) ==
    LET unpacked == unpack(packed_data) IN
    IF unpacked.st # "ok" THEN None
    ELSE LET header == DecodedHeader(Host(RpcSchema, "package"), unpacked.bytes) IN
         IF header.st # "ok" THEN None ELSE GetInteger(header.val.val, "type")

\* the 64-bit values that are the tag of a protocol of the schema
ProtocolTags == {U16AsI64(RpcSchema.protocols[i].tag) : i \in 1..Len(RpcSchema.protocols)}

\* C28: a protocol that does not exist yields UnknownProtocol: Sender.request
\* with a name that is not a protocol of the remote schema fails with
\* UnknownProtocol and records no session, and Host.dispatch of a packet
\* whose header `type` value is not the tag of a protocol of the host's
\* schema fails with UnknownProtocol, for every 64-bit value of `type`
\* including negative values and values above 65535.
C28_UnknownProtocol ==
    /\ rpc = "named" /\ sent.name \notin ProtocolNames =>
          reqpkt.st = "UnknownProtocol" /\ ssessions = EmptyMap
    /\ rpc = "typed" /\ IsSome(HeaderType(reqpkt.bytes))
                     /\ Unwrap(HeaderType(reqpkt.bytes)) \notin ProtocolTags =>
          incoming.st = "UnknownProtocol"


\* C29: whenever encode(S, T, v) succeeds, decode(S, T, .) succeeds on the
\* bytes it produced: for every value shape the encoder accepts (including an
\* Integer supplied for a boolean field and a Boolean supplied for an integer
\* field) the encoder never emits a message that its own decoder rejects.
C29_DecodesOwnOutput ==
    cpc = "acceptedread" /\ wire.st = "ok" => decoded.st = "ok"


\* C30: load_binary returns either a Schema or a DecodeError for every input
\* byte sequence: in particular a type-array, protocol-array or element
\* length prefix that exceeds the bytes remaining yields an error instead of
\* an abort.
C30_LoadNeverAborts ==
    spc = "damagedloaded" => loaded.st # "panic"

====
